---- MODULE Spec2Model ----
(***************************************************************************)
(* Query-formatting helpers of pg-promise: Column, TableName, ColumnSet    *)
(* and the update statement generator.                                     *)
(*                                                                         *)
(* JavaScript values are records [k, n, s]: k is the type tag, n the       *)
(* number (or 0/1 of a boolean), s the text (or the name of a function).   *)
(* SQL text is a sequence of tokens: literal text, a named placeholder     *)
(* ${prop+mod}, or a positional raw placeholder $n^; Flat gives the string.*)
(***************************************************************************)
EXTENDS Integers, Sequences, FiniteSets, TLC

(* ------------------------------ bounds --------------------------------- *)

\* longest column array handed to the ColumnSet constructor
MaxCols == 2

\* most objects one behaviour allocates through prepare
MaxAlloc == 2

(* --------------------------- JavaScript values -------------------------- *)

Absent == [k |-> "absent", n |-> 0, s |-> ""]
Undef == [k |-> "undef", n |-> 0, s |-> ""]
Null == [k |-> "null", n |-> 0, s |-> ""]
NaN == [k |-> "nan", n |-> 0, s |-> ""]
Num(n) == [k |-> "num", n |-> n, s |-> ""]
Str(s) == [k |-> "str", n |-> 0, s |-> s]
Bool(b) == [k |-> "bool", n |-> IF b THEN 1 ELSE 0, s |-> ""]
Fn(f) == [k |-> "fn", n |-> 0, s |-> f]

\* JavaScript truthiness of a value
Truthy(v) ==
    CASE v.k \in {"absent", "undef", "null", "nan"} -> FALSE
      [] v.k = "num" -> v.n # 0
      [] v.k = "str" -> v.s # ""
      [] v.k = "bool" -> v.n = 1
      [] OTHER -> TRUE

\* utils.isNull: null or undefined (a property that is absent reads undefined)
IsNull(v) == v.k \in {"absent", "undef", "null"}

\* utils.isText: a non-empty text string
IsText(v) == v.k = "str" /\ v.s # ""

\* the least of a set of numbers: the first index
First(S) == CHOOSE x \in S : \A y \in S : x <= y

(* ------------------------------ SQL text -------------------------------- *)

Lit(s) == [t |-> "lit", s |-> s, m |-> "", n |-> 0]
Var(p, m) == [t |-> "var", s |-> p, m |-> m, n |-> 0]
Pos(n) == [t |-> "pos", s |-> "", m |-> "^", n |-> n]

\* a string as text: the empty string is the empty sequence
T(s) == IF s = "" THEN <<>> ELSE <<Lit(s)>>

FlatTok(x) ==
    CASE x.t = "lit" -> x.s
      [] x.t = "var" -> "${" \o x.s \o x.m \o "}"
      [] OTHER -> "$" \o ToString(x.n) \o x.m

RECURSIVE Flat(_)
Flat(txt) == IF txt = <<>> THEN "" ELSE FlatTok(Head(txt)) \o Flat(Tail(txt))

\* Array.prototype.join() of an array of texts: separated by commas
RECURSIVE JoinText(_)
JoinText(parts) ==
    IF parts = <<>> THEN <<>>
    ELSE IF Len(parts) = 1 THEN Head(parts)
    ELSE Head(parts) \o <<Lit(",")>> \o JoinText(Tail(parts))

RECURSIVE JoinChars(_)
JoinChars(cs) == IF cs = <<>> THEN "" ELSE Head(cs) \o JoinChars(Tail(cs))

\* formatting.as.name: the identifier in double quotes
AsName(s) == "\"" \o s \o "\""

(* ------------------------- characters of strings ------------------------ *)

\* the characters of the strings that the code scans character by character
CharsOf(s) ==
    CASE s = "" -> <<>>
      [] s = "id" -> <<"i", "d">>
      [] s = "?id" -> <<"?", "i", "d">>
      [] s = "val" -> <<"v", "a", "l">>
      [] s = "msg" -> <<"m", "s", "g">>
      [] s = "msg^" -> <<"m", "s", "g", "^">>
      [] s = "int" -> <<"i", "n", "t">>
      [] s = "::int" -> <<":", ":", "i", "n", "t">>
      [] OTHER -> [i \in 1..Len(s) |-> SubSeq(s, i, i)]

\* String.prototype.substr(idx): the characters from the 0-based index idx on
Substr(cs, idx) == SubSeq(cs, idx + 1, Len(cs))

\* String.prototype.substr(0, n): the first n characters
Prefix(cs, n) == SubSeq(cs, 1, n)

(* -------------------------------- Column -------------------------------- *)

\* the modifiers of the regular expression, in the order of its alternatives
ModTokens ==
    << <<"^">>, <<"~">>, <<"#">>, <<":", "r", "a", "w">>, <<":", "n", "a", "m", "e">>,
       <<":", "j", "s", "o", "n">>, <<":", "c", "s", "v">>,
       <<":", "v", "a", "l", "u", "e">> >>

\* whether token tok occurs in cs at the 0-based index i
TokenAt(cs, i, tok) ==
    /\ i + Len(tok) <= Len(cs)
    /\ SubSeq(cs, i + 1, i + Len(tok)) = tok

\* the match as it would be if the rightmost occurrence were taken
MatchAtLast(cs, hits) ==
    IF hits = {} THEN [index |-> -1, tok |-> <<>>]
    ELSE [index |-> -First({-i : i \in hits}),
          tok |-> ModTokens[First({j \in DOMAIN ModTokens : TokenAt(cs, -First({-i : i \in hits}), ModTokens[j])})]]

\* String.prototype.match of the modifier expression: the leftmost match, and at
\* that index the first alternative; index -1 when nothing matches
MatchAt(cs, hits) ==
    IF hits = {} THEN [index |-> -1, tok |-> <<>>]
    ELSE [index |-> First(hits),
          tok |-> ModTokens[First({j \in DOMAIN ModTokens : TokenAt(cs, First(hits), ModTokens[j])})]]

MatchMod(cs) ==
    MatchAt(cs, {i \in 0..(Len(cs) - 1) : \E j \in DOMAIN ModTokens : TokenAt(cs, i, ModTokens[j])})

RECURSIVE LeadingCount(_, _, _)
LeadingCount(cs, ch, idx) ==
    IF idx < Len(cs) /\ cs[idx + 1] = ch THEN LeadingCount(cs, ch, idx + 1) ELSE idx

\* stripCnd: the name without its leading question marks
StripCnd(cs) ==
    LET idx == LeadingCount(cs, "?", 0)
    IN IF idx # 0 THEN Substr(cs, idx) ELSE cs

\* getCastName: the cast without its leading colons
GetCastName(cs) ==
    LET idx == LeadingCount(cs, ":", 0)
    IN IF idx # 0 THEN Substr(cs, idx) ELSE cs

\* a configurator object without any property
NoFields ==
    [name |-> Absent, prop |-> Absent, mod |-> Absent, cast |-> Absent,
     cnd |-> Absent, def |-> Absent, init |-> Absent, skip |-> Absent]

\* what the Column constructor is given: a primitive value, or a configurator
Prim(v) == [v |-> v, f |-> NoFields]
Config(f) == [v |-> [k |-> "obj", n |-> 0, s |-> ""], f |-> f]

\* the fields from a string as they would be if the modifier stayed in the name
StringFieldsWholeName(chars, tmp, mod) ==
    [NoFields EXCEPT
       !.cnd = IF chars # tmp THEN Bool(TRUE) ELSE Absent,
       !.name = Str(JoinChars(tmp)),
       !.mod = IF mod.index >= 0 THEN Str(JoinChars(mod.tok)) ELSE Absent]

\* the fields assigned to this from a string, lines 116-127: tmp is the string
\* without its leading question marks, mod the match of the modifier
StringFields(chars, tmp, mod) ==
    [NoFields EXCEPT
       !.cnd = IF chars # tmp THEN Bool(TRUE) ELSE Absent,
       !.name = IF mod.index >= 0 THEN Str(JoinChars(Prefix(tmp, mod.index)))
                ELSE Str(JoinChars(tmp)),
       !.mod = IF mod.index >= 0 THEN Str(JoinChars(mod.tok)) ELSE Absent]

\* the fields assigned to this from a configurator object f, lines 130-153
ConfigFields(f) ==
    [name |-> f.name,
     prop |-> f.prop,
     mod |-> IF Truthy(f.mod) /\ f.mod.k = "str" THEN f.mod ELSE Absent,
     cast |-> IF IsText(f.cast) THEN Str(JoinChars(GetCastName(CharsOf(f.cast.s)))) ELSE Absent,
     cnd |-> IF f.cnd.k # "absent" THEN Bool(Truthy(f.cnd)) ELSE Absent,
     def |-> f.def,
     init |-> IF f.init.k = "fn" THEN f.init ELSE Absent,
     skip |-> IF f.skip.k = "fn" THEN f.skip ELSE Absent]

\* the fields assigned to this before the checks of lines 159-165
ColumnFields(col) ==
    IF col.v.k = "str"
    THEN StringFields(CharsOf(col.v.s), StripCnd(CharsOf(col.v.s)),
                      MatchMod(StripCnd(CharsOf(col.v.s))))
    ELSE ConfigFields(col.f)

Failed(type, msg) == [ok |-> FALSE, type |-> type, err |-> msg]

\* the checks of lines 159-165 on the fields of this, and the frozen Column with
\* the fields derived in lines 167-171
CheckedColumn(this) ==
    IF ~IsText(this.name) THEN
        Failed("TypeError", "A column name must be a non-empty text string.")
    ELSE IF this.prop.k # "absent" /\ ~IsText(this.prop) THEN
        Failed("TypeError", "A property name must be a non-empty text string.")
    ELSE
        [ok |-> TRUE,
         name |-> this.name.s,
         prop |-> this.prop,
         mod |-> this.mod,
         cast |-> this.cast,
         cnd |-> this.cnd,
         def |-> this.def,
         init |-> this.init,
         skip |-> this.skip,
         variable |-> Var(IF Truthy(this.prop) THEN this.prop.s ELSE this.name.s,
                          IF Truthy(this.mod) THEN this.mod.s ELSE ""),
         castText |-> IF Truthy(this.cast) THEN "::" \o this.cast.s ELSE "",
         escapedName |-> AsName(this.name.s)]

\* the constructor as it would be without the check of line 155
ColumnOfAnything(col) == CheckedColumn(ColumnFields(col))

\* new Column(col): the frozen Column, or the error thrown
Column(col) ==
    IF col.v.k # "str" /\ col.v.k # "obj" THEN
        Failed("TypeError", "A column must be a string or a configurator object.")
    ELSE CheckedColumn(ColumnFields(col))

\* c.prop || c.name
PropName(c) == IF Truthy(c.prop) THEN c.prop.s ELSE c.name

(* ------------------------------- objects -------------------------------- *)

\* A plain object: its own properties in insertion order, and the enumerable
\* properties it inherits, each a sequence of [k, v].
Object(own, proto) == [own |-> own, proto |-> proto]
P(k, v) == [k |-> k, v |-> v]

HasKey(props, k) == \E i \in DOMAIN props : props[i].k = k
ValueAt(props, k) == props[CHOOSE i \in DOMAIN props : props[i].k = k].v

\* k in obj
In(k, obj) == HasKey(obj.own, k) \/ HasKey(obj.proto, k)

\* obj[k]
Get(obj, k) ==
    IF HasKey(obj.own, k) THEN ValueAt(obj.own, k)
    ELSE IF HasKey(obj.proto, k) THEN ValueAt(obj.proto, k)
    ELSE Undef

\* props after target[k] = v
SetProp(props, k, v) ==
    IF HasKey(props, k)
    THEN [i \in DOMAIN props |-> IF props[i].k = k THEN P(k, v) ELSE props[i]]
    ELSE Append(props, P(k, v))

\* the names that for (name in obj) visits, own ones first
ForIn(obj) ==
    [i \in 1..Len(obj.own) |-> [name |-> obj.own[i].k, own |-> TRUE]]
    \o SelectSeq([i \in 1..Len(obj.proto) |-> [name |-> obj.proto[i].k, own |-> FALSE]],
                 LAMBDA e : ~HasKey(obj.own, e.name))

(* ------------------------------ callbacks ------------------------------- *)

\* a skip callback, called with this = the source object and the property name
ApplySkip(fn, this, name) ==
    CASE fn = "always" -> Bool(TRUE)
      [] fn = "missing" -> Bool(~In(name, this))
      [] OTHER -> Undef

\* an init callback, called with this = the source object and the value
ApplyInit(fn, this, value) ==
    CASE fn = "dbl" -> IF value.k = "num" THEN Num(value.n * 2) ELSE NaN
      [] fn = "self" -> Get(this, "id")
      [] OTHER -> Undef

Call(cb, col, fn, arg) == [cb |-> cb, col |-> col, fn |-> fn, arg |-> arg]

(* ------------------------------- TableName ------------------------------ *)

NoTable == [ok |-> FALSE, type |-> "", err |-> ""]

\* what is passed as a table: a primitive, a {table, schema} record, a TableName
TPrim(v) == [v |-> v, f |-> [table |-> Absent, schema |-> Absent], tn |-> NoTable]
TRec(table, schema) == [v |-> [k |-> "obj", n |-> 0, s |-> ""],
                        f |-> [table |-> table, schema |-> schema], tn |-> NoTable]
TInst(tn) == [v |-> [k |-> "tn", n |-> 0, s |-> ""],
              f |-> [table |-> Absent, schema |-> Absent], tn |-> tn]

\* the constructor as it would be if a schema passed separately came first
TableNameSchemaArgFirst(tableArg, schemaArg) ==
    LET rec == tableArg.v.k = "obj" /\ tableArg.f.table.k # "absent"
        schema == IF rec /\ IsNull(schemaArg) THEN tableArg.f.schema ELSE schemaArg
        table == IF rec THEN tableArg.f.table ELSE tableArg.v
    IN IF ~IsText(table) THEN
           Failed("TypeError", "Table name must be non-empty text string.")
       ELSE IF ~IsNull(schema) /\ schema.k # "str" THEN
           Failed("TypeError", "Invalid schema name.")
       ELSE
           LET sch == IF ~IsNull(schema) /\ schema.s # "" THEN schema ELSE Absent
           IN [ok |-> TRUE,
               table |-> table.s,
               schema |-> sch,
               name |-> IF Truthy(sch) THEN AsName(sch.s) \o "." \o AsName(table.s)
                        ELSE AsName(table.s)]

\* new TableName(table, schema)
TableName(tableArg, schemaArg) ==
    LET rec == tableArg.v.k = "obj" /\ tableArg.f.table.k # "absent"
        schema == IF rec THEN tableArg.f.schema ELSE schemaArg
        table == IF rec THEN tableArg.f.table ELSE tableArg.v
    IN IF ~IsText(table) THEN
           Failed("TypeError", "Table name must be non-empty text string.")
       ELSE IF ~IsNull(schema) /\ schema.k # "str" THEN
           Failed("TypeError", "Invalid schema name.")
       ELSE
           LET sch == IF ~IsNull(schema) /\ schema.s # "" THEN schema ELSE Absent
           IN [ok |-> TRUE,
               table |-> table.s,
               schema |-> sch,
               name |-> IF Truthy(sch) THEN AsName(sch.s) \o "." \o AsName(table.s)
                        ELSE AsName(table.s)]

(* ------------------------------- ColumnSet ------------------------------ *)

NoObject == Object(<<>>, <<>>)
NoColumn == Failed("", "")

\* what is passed as columns: a primitive, an array of column details, a single
\* Column, a plain object, a ColumnSet
CPrim(v) == [k |-> "prim", v |-> v, items |-> <<>>, col |-> NoColumn, obj |-> NoObject, set |-> <<>>]
CArr(items) == [k |-> "arr", v |-> Undef, items |-> items, col |-> NoColumn, obj |-> NoObject, set |-> <<>>]
CCol(c) == [k |-> "col", v |-> Undef, items |-> <<>>, col |-> c, obj |-> NoObject, set |-> <<>>]
CObj(o) == [k |-> "obj", v |-> Undef, items |-> <<>>, col |-> NoColumn, obj |-> o, set |-> <<>>]
CSet(cset) == [k |-> "set", v |-> Undef, items |-> <<>>, col |-> NoColumn, obj |-> NoObject, set |-> <<cset>>]

\* the options of the ColumnSet constructor
NoOptions == [v |-> Undef, table |-> TPrim(Absent), inherit |-> Absent]
Options(table, inherit) ==
    [v |-> [k |-> "obj", n |-> 0, s |-> ""], table |-> table, inherit |-> inherit]

\* the element of an array of column details: a Column is used as it is
ColumnOf(item) == IF item.v.k = "col" THEN item.inst ELSE Column(item)

\* the Columns of a for-in enumeration
ColumnsOfObject(obj, inherit) ==
    LET names == SelectSeq(ForIn(obj), LAMBDA e : Truthy(inherit) \/ e.own)
    IN [i \in DOMAIN names |-> Column(Prim(Str(names[i].name)))]

\* this.table, lines 68-78: the TableName (or the error of its constructor) when
\* the options give a table
ColumnSetTable(options) ==
    IF IsNull(options.v) \/ IsNull(options.table.v) THEN NoTable
    ELSE IF options.table.v.k = "tn" THEN options.table.tn
    ELSE TableName(options.table, Undef)

\* this.columns, lines 101-116
ColumnSetColumns(columns, inherit) ==
    CASE columns.k = "arr" -> [i \in DOMAIN columns.items |-> ColumnOf(columns.items[i])]
      [] columns.k = "col" -> <<columns.col>>
      [] OTHER -> ColumnsOfObject(columns.obj, inherit)

\* the ColumnSet of a table and columns, or the first error thrown making them
FrozenColumnSet(given, table, cols) ==
    IF given /\ ~table.ok THEN table
    ELSE IF \E i \in DOMAIN cols : ~cols[i].ok
    THEN cols[First({i \in DOMAIN cols : ~cols[i].ok})]
    ELSE [ok |-> TRUE, columns |-> cols, table |-> table]

\* new ColumnSet(columns, options): the frozen ColumnSet, or the error thrown
ColumnSet(columns, options) ==
    IF columns.k = "prim" THEN
        Failed("TypeError", "Invalid parameter 'columns' specified.")
    ELSE IF ~IsNull(options.v) /\ options.v.k # "obj" THEN
        Failed("TypeError", "Invalid parameter 'options' specified.")
    ELSE
        FrozenColumnSet(~IsNull(options.v) /\ ~IsNull(options.table.v),
                        ColumnSetTable(options),
                        ColumnSetColumns(columns,
                                         IF IsNull(options.v) THEN Undef ELSE options.inherit))

\* a memoized string of the closure: not yet assigned, or assigned val
Unset == [def |-> FALSE, val |-> <<>>]
Cached(txt) == [def |-> TRUE, val |-> txt]

\* the truthiness of a closure variable that holds a string or undefined
Filled(cache) == cache.def /\ Flat(cache.val) # ""

\* the names getter, lines 126-136: the value returned and the closure variable
Names(columns, names) ==
    IF ~Filled(names) THEN
        LET joined == JoinText([i \in DOMAIN columns |-> T(columns[i].escapedName)])
            val == IF Flat(joined) # "" THEN <<Lit("(")>> \o joined \o <<Lit(")")>> ELSE joined
        IN [ret |-> val, cache |-> Cached(val)]
    ELSE [ret |-> names.val, cache |-> names]

\* the variables getter as it would be if it left the conditional columns out
VariablesOfUpdated(columns, variables) ==
    IF ~Filled(variables) THEN
        LET kept == SelectSeq(columns, LAMBDA c : ~Truthy(c.cnd))
            val == JoinText([i \in DOMAIN kept |-> <<kept[i].variable>>])
        IN [ret |-> val, cache |-> Cached(val)]
    ELSE [ret |-> variables.val, cache |-> variables]

\* the variables getter, lines 147-154
Variables(columns, variables) ==
    IF ~Filled(variables) THEN
        LET val == JoinText([i \in DOMAIN columns |-> <<columns[i].variable>>])
        IN [ret |-> val, cache |-> Cached(val)]
    ELSE [ret |-> variables.val, cache |-> variables]

\* the filter of getUpdates as it would be if skip were never consulted
IsUpdatedWithoutSkip(c, obj) == ~Truthy(c.cnd)

\* the filter of getUpdates, lines 162-172, on column c
IsUpdated(c, obj) ==
    IF Truthy(c.cnd) THEN FALSE
    ELSE IF Truthy(c.skip) /\ Truthy(ApplySkip(c.skip.s, obj, PropName(c))) THEN FALSE
    ELSE TRUE

\* the skip callbacks that the filter of getUpdates calls, in order
RECURSIVE UpdateSkipCalls(_, _, _)
UpdateSkipCalls(columns, i, obj) ==
    IF i > Len(columns) THEN <<>>
    ELSE (IF ~Truthy(columns[i].cnd) /\ Truthy(columns[i].skip)
          THEN <<Call("skip", i, columns[i].skip.s, Str(PropName(columns[i])))>>
          ELSE <<>>) \o UpdateSkipCalls(columns, i + 1, obj)

\* getUpdates as it would be if only a skip that skipped made the result dynamic
GetUpdatesDynamicWhenSkipped(columns, updates, obj) ==
    IF Filled(updates) THEN [ret |-> updates.val, cache |-> updates, calls |-> <<>>]
    ELSE
        LET calls == UpdateSkipCalls(columns, 1, obj)
            kept == SelectSeq(columns, LAMBDA c : IsUpdated(c, obj))
            dynamic == Len(kept) < Len(SelectSeq(columns, LAMBDA c : ~Truthy(c.cnd)))
            list == JoinText([i \in DOMAIN kept |->
                        T(kept[i].escapedName) \o <<Lit("="), kept[i].variable>>
                        \o T(kept[i].castText)])
        IN [ret |-> list,
            cache |-> IF ~dynamic THEN Cached(list) ELSE updates,
            calls |-> calls]

\* getUpdates as it would be if every result were stored
GetUpdatesAlwaysCached(columns, updates, obj) ==
    IF Filled(updates) THEN [ret |-> updates.val, cache |-> updates, calls |-> <<>>]
    ELSE
        LET calls == UpdateSkipCalls(columns, 1, obj)
            kept == SelectSeq(columns, LAMBDA c : IsUpdated(c, obj))
            list == JoinText([i \in DOMAIN kept |->
                        T(kept[i].escapedName) \o <<Lit("="), kept[i].variable>>
                        \o T(kept[i].castText)])
        IN [ret |-> list, cache |-> Cached(list), calls |-> calls]

\* getUpdates(obj), lines 157-180: the value returned, the closure variable
\* updates, and the callbacks called
GetUpdates(columns, updates, obj) ==
    IF Filled(updates) THEN [ret |-> updates.val, cache |-> updates, calls |-> <<>>]
    ELSE
        LET calls == UpdateSkipCalls(columns, 1, obj)
            dynamic == calls # <<>>
            kept == SelectSeq(columns, LAMBDA c : IsUpdated(c, obj))
            list == JoinText([i \in DOMAIN kept |->
                        T(kept[i].escapedName) \o <<Lit("="), kept[i].variable>>
                        \o T(kept[i].castText)])
        IN [ret |-> list,
            cache |-> IF ~dynamic THEN Cached(list) ELSE updates,
            calls |-> calls]

\* what is passed as data: a primitive, a reference to an object of the heap,
\* or an array whose elements are such references or primitives
DPrim(v) == [k |-> "prim", v |-> v, id |-> 0, items |-> <<>>]
DObj(id) == [k |-> "obj", v |-> Undef, id |-> id, items |-> <<>>]
DArr(items) == [k |-> "arr", v |-> Undef, id |-> 0, items |-> items]

\* the number of columns that satisfy a test, hits[i] being the test of column i
CountIf(hits) == Cardinality({i \in DOMAIN hits : hits[i]})

\* the skip callbacks that the loop of canUpdate calls, in order
RECURSIVE CanUpdateSkipCalls(_, _)
CanUpdateSkipCalls(columns, i) ==
    IF i > Len(columns) THEN <<>>
    ELSE (IF Truthy(columns[i].skip)
          THEN <<Call("skip", i, columns[i].skip.s, Str(PropName(columns[i])))>>
          ELSE <<>>) \o CanUpdateSkipCalls(columns, i + 1)

\* canUpdate as it would be if the skip callbacks were not counted
CanUpdateIgnoringSkip(columns, data, objs) ==
    IF data.k = "prim" THEN
        [ok |-> FALSE, type |-> "TypeError", err |-> "Invalid parameter 'data' specified.",
         calls |-> <<>>]
    ELSE
        LET cnd == CountIf([i \in DOMAIN columns |-> Truthy(columns[i].cnd)])
        IN [ok |-> TRUE,
            ret |-> (Len(columns) > cnd /\ (data.k = "arr" => Len(data.items) > 0)),
            calls |-> <<>>]

\* canUpdate as it would be if an array were treated like a single object
CanUpdateArrayAsObject(columns, data, objs) ==
    IF data.k = "prim" THEN
        [ok |-> FALSE, type |-> "TypeError", err |-> "Invalid parameter 'data' specified.",
         calls |-> <<>>]
    ELSE
        LET cnd == CountIf([i \in DOMAIN columns |-> Truthy(columns[i].cnd)])
            skip == CountIf([i \in DOMAIN columns |->
                        /\ Truthy(columns[i].skip)
                        /\ Truthy(ApplySkip(columns[i].skip.s,
                                            IF data.k = "obj" THEN objs[data.id] ELSE NoObject,
                                            PropName(columns[i])))])
        IN [ok |-> TRUE, ret |-> (Len(columns) > cnd + skip),
            calls |-> CanUpdateSkipCalls(columns, 1)]

\* canUpdate(data), lines 205-224; objs gives the objects that data refers to
CanUpdate(columns, data, objs) ==
    IF data.k = "prim" THEN
        [ok |-> FALSE, type |-> "TypeError", err |-> "Invalid parameter 'data' specified.",
         calls |-> <<>>]
    ELSE
        LET total == Len(columns)
        IN IF data.k = "arr" THEN
               LET cnd == CountIf([i \in DOMAIN columns |-> Truthy(columns[i].cnd)])
               IN [ok |-> TRUE, ret |-> (total > cnd /\ Len(data.items) > 0), calls |-> <<>>]
           ELSE
               LET cnd == CountIf([i \in DOMAIN columns |-> Truthy(columns[i].cnd)])
                   skip == CountIf([i \in DOMAIN columns |->
                               /\ Truthy(columns[i].skip)
                               /\ Truthy(ApplySkip(columns[i].skip.s, objs[data.id],
                                                   PropName(columns[i])))])
               IN [ok |-> TRUE, ret |-> (total > cnd + skip),
                   calls |-> CanUpdateSkipCalls(columns, 1)]

\* the loop body of prepare with the value v assigned for column i, and init
\* called with arg when called is true
Assigned(acc, c, i, v, called, arg) ==
    [target |-> SetProp(acc.target, PropName(c), v),
     calls |-> IF called THEN Append(acc.calls, Call("init", i, c.init.s, arg)) ELSE acc.calls,
     writes |-> Append(acc.writes, [col |-> i, k |-> PropName(c), v |-> v])]

\* the loop body as it would be if init ran for a missing property only when a
\* default is configured
PrepareColumnInitNeedsDef(acc, c, i, obj) ==
    LET name == PropName(c)
        init == Truthy(c.init)
    IN IF In(name, obj) THEN
           Assigned(acc, c, i, IF init THEN ApplyInit(c.init.s, obj, Get(obj, name))
                               ELSE Get(obj, name), init, Get(obj, name))
       ELSE IF c.def.k # "absent" THEN
           Assigned(acc, c, i, IF init THEN ApplyInit(c.init.s, obj, c.def) ELSE c.def,
                    init, c.def)
       ELSE acc

\* the loop body as it would be if init were not called for conditional columns
PrepareColumnSkipsCnd(acc, c, i, obj) ==
    LET name == PropName(c)
        init == Truthy(c.init) /\ ~Truthy(c.cnd)
        value == IF In(name, obj) THEN Get(obj, name)
                 ELSE IF c.def.k # "absent" THEN c.def ELSE Undef
    IN IF In(name, obj) \/ c.def.k # "absent" \/ init THEN
           Assigned(acc, c, i, IF init THEN ApplyInit(c.init.s, obj, value) ELSE value,
                    init, value)
       ELSE acc

\* the loop body as it would be if a default were final: init not applied to it
PrepareColumnDefWins(acc, c, i, obj) ==
    LET name == PropName(c)
        init == Truthy(c.init)
    IN IF In(name, obj) THEN
           Assigned(acc, c, i, IF init THEN ApplyInit(c.init.s, obj, Get(obj, name))
                               ELSE Get(obj, name), init, Get(obj, name))
       ELSE IF c.def.k # "absent" THEN Assigned(acc, c, i, c.def, FALSE, c.def)
       ELSE IF init THEN Assigned(acc, c, i, ApplyInit(c.init.s, obj, Undef), TRUE, Undef)
       ELSE acc

\* the body of the loop of prepare, lines 245-257, on column i: acc holds the
\* target so far, the callbacks called and the assignments made
PrepareColumn(acc, c, i, obj) ==
    LET name == PropName(c)
    IN IF In(name, obj) THEN
           LET value == Get(obj, name)
               v == IF Truthy(c.init) THEN ApplyInit(c.init.s, obj, value) ELSE value
           IN [target |-> SetProp(acc.target, name, v),
               calls |-> acc.calls \o (IF Truthy(c.init)
                                       THEN <<Call("init", i, c.init.s, value)>> ELSE <<>>),
               writes |-> Append(acc.writes, [col |-> i, k |-> name, v |-> v])]
       ELSE
           LET hasDef == c.def.k # "absent"
               value == IF hasDef THEN c.def ELSE Undef
               t1 == IF hasDef THEN SetProp(acc.target, name, value) ELSE acc.target
               w1 == IF hasDef THEN Append(acc.writes, [col |-> i, k |-> name, v |-> value])
                     ELSE acc.writes
           IN IF Truthy(c.init) THEN
                  LET v == ApplyInit(c.init.s, obj, value)
                  IN [target |-> SetProp(t1, name, v),
                      calls |-> Append(acc.calls, Call("init", i, c.init.s, value)),
                      writes |-> Append(w1, [col |-> i, k |-> name, v |-> v])]
              ELSE [target |-> t1, calls |-> acc.calls, writes |-> w1]

RECURSIVE PrepareLoop(_, _, _, _)
PrepareLoop(acc, columns, i, obj) ==
    IF i > Len(columns) THEN acc
    ELSE PrepareLoop(PrepareColumn(acc, columns[i], i, obj), columns, i + 1, obj)

\* prepare as it would be if it wrote into the source object instead of a new one
PrepareInPlace(columns, id, obj, fresh) ==
    LET done == PrepareLoop([target |-> obj.own, calls |-> <<>>, writes |-> <<>>], columns, 1, obj)
    IN [ref |-> id, target |-> Object(done.target, obj.proto),
        src |-> Object(done.target, obj.proto),
        calls |-> done.calls, writes |-> done.writes]

\* prepare(obj), lines 242-260, for the object obj at reference id: the new object
\* target with its reference fresh, and the source object as the call leaves it
Prepare(columns, id, obj, fresh) ==
    LET done == PrepareLoop([target |-> <<>>, calls |-> <<>>, writes |-> <<>>], columns, 1, obj)
    IN [ref |-> fresh, target |-> Object(done.target, <<>>), src |-> obj,
        calls |-> done.calls, writes |-> done.writes]

(* ------------------------------ formatting ------------------------------ *)

\* the SQL literal of a value under a modifier
FormatValue(v, mod) ==
    IF mod \in {"~", ":name"} /\ v.k = "str" THEN AsName(v.s)
    ELSE IF mod \in {"^", ":raw"} /\ v.k = "str" THEN v.s
    ELSE CASE v.k = "num" -> ToString(v.n)
           [] v.k = "str" -> "'" \o v.s \o "'"
           [] v.k = "bool" -> IF v.n = 1 THEN "true" ELSE "false"
           [] v.k = "nan" -> "'NaN'"
           [] OTHER -> "null"

\* the named placeholders of txt whose property obj does not have
MissingIn(txt, obj) == {i \in DOMAIN txt : txt[i].t = "var" /\ ~In(txt[i].s, obj)}

\* formatting.as.format(txt, obj) for named placeholders. Whether the formatter
\* rejects a placeholder whose property is missing is left open (strict).
FormatNamed(txt, obj, strict) ==
    IF strict /\ MissingIn(txt, obj) # {} THEN
        LET i == CHOOSE x \in MissingIn(txt, obj) : \A y \in MissingIn(txt, obj) : x <= y
        IN Failed("Error", "Property '" \o txt[i].s \o "' doesn't exist.")
    ELSE [ok |-> TRUE,
          txt |-> [i \in DOMAIN txt |->
                     IF txt[i].t = "var" THEN Lit(FormatValue(Get(obj, txt[i].s), txt[i].m))
                     ELSE txt[i]]]

\* formatting.as.format(txt, values) for positional raw placeholders $n^
RECURSIVE FormatRaw(_, _)
FormatRaw(txt, values) ==
    IF txt = <<>> THEN <<>>
    ELSE (IF Head(txt).t = "pos" THEN values[Head(txt).n] ELSE <<Head(txt)>>)
         \o FormatRaw(Tail(txt), values)

\* String.prototype.toUpperCase on the literal pieces of the templates
UpperCase(s) ==
    CASE s = "update " -> "UPDATE "
      [] s = " set " -> " SET "
      [] s = " as " -> " AS "
      [] s = " from (values" -> " FROM (VALUES"
      [] s = ") as " -> ") AS "

ToUpperCase(txt) ==
    [i \in DOMAIN txt |-> IF txt[i].t = "lit" THEN Lit(UpperCase(txt[i].s)) ELSE txt[i]]

\* "update $1^ as $2^ set $3^ from (values$4^) as $5^"
MultiTemplate ==
    <<Lit("update "), Pos(1), Lit(" as "), Pos(2), Lit(" set "), Pos(3),
      Lit(" from (values"), Pos(4), Lit(") as "), Pos(5)>>

\* "update $1^ set "
SingleTemplate == <<Lit("update "), Pos(1), Lit(" set ")>>

\* the query of the multi-row branch, lines 150-153
MultiQuery(capSQL) == IF capSQL THEN ToUpperCase(MultiTemplate) ELSE MultiTemplate

\* the query of the single-object branch as it would be if always capitalized
SingleQueryCapitalized(capSQL) == ToUpperCase(SingleTemplate)

\* the query of the single-object branch, lines 183-186
SingleQuery(capSQL) == IF capSQL THEN ToUpperCase(SingleTemplate) ELSE SingleTemplate

(* -------------------------------- update -------------------------------- *)

\* the options of update
UPrim(v) == [v |-> v, tableAlias |-> Absent, valueAlias |-> Absent]
UOpts(tableAlias, valueAlias) ==
    [v |-> [k |-> "obj", n |-> 0, s |-> ""], tableAlias |-> tableAlias, valueAlias |-> valueAlias]

\* value.toString() of a string or a number
ToStr(v) == IF v.k = "num" THEN ToString(v.n) ELSE v.s

\* data where update passes it on as the columns (columns || data): the object,
\* or the array with its elements as the column details
DataAsColumns(data, objs) ==
    LET asConfig(o) ==
            Config([f \in DOMAIN NoFields |-> IF In(f, o) THEN Get(o, f) ELSE Absent])
    IN IF data.k = "obj" THEN CObj(objs[data.id])
       ELSE CArr([i \in DOMAIN data.items |->
                    IF data.items[i].k = "obj" THEN asConfig(objs[data.items[i].id])
                    ELSE Prim(data.items[i].v)])

\* what a call leaves behind: the closure variables of the ColumnSet, the
\* callbacks called, the number of objects allocated by prepare, the objects
Effects(names, variables, updates, calls, allocs, objs) ==
    [names |-> names, variables |-> variables, updates |-> updates, calls |-> calls,
     allocs |-> allocs, objs |-> objs]

Returned(ret, eff) == [ok |-> TRUE, ret |-> ret, type |-> "", err |-> "", eff |-> eff]

\* a throw as it would be if the text made so far reached the caller
ThrownWithText(type, msg, eff) == [ok |-> FALSE, ret |-> "update ", type |-> type, err |-> msg, eff |-> eff]

Thrown(type, msg, eff) == [ok |-> FALSE, ret |-> "", type |-> type, err |-> msg, eff |-> eff]

\* the element at reference id added to the loop's result: vars is what the
\* variables getter gave, prep what prepare gave, f what the formatter gave
Tuple(acc, id, vars, prep, f) ==
    [parts |-> IF f.ok THEN Append(acc.parts, <<Lit("(")>> \o f.txt \o <<Lit(")")>>)
               ELSE acc.parts,
     eff |-> Effects(acc.eff.names, vars.cache, acc.eff.updates, acc.eff.calls \o prep.calls,
                     acc.eff.allocs + 1, [acc.eff.objs EXCEPT ![id] = prep.src]),
     fail |-> IF f.ok THEN acc.fail ELSE f]

\* line 171: format(columns.variables, columns.prepare(d))
FormatTuple(acc, id, vars, prep, strict) ==
    Tuple(acc, id, vars, prep, FormatNamed(vars.ret, prep.target, strict))

\* the loop as it would be if the message counted the elements from one
RECURSIVE ValuesLoopOneBased(_, _, _, _, _, _)
ValuesLoopOneBased(acc, columns, items, i, fresh, strict) ==
    IF i > Len(items) \/ ~acc.fail.ok THEN acc
    ELSE IF items[i].k = "prim" THEN
        [acc EXCEPT !.fail = Failed("Error", "Invalid update object at index "
                                              \o ToString(i) \o ".")]
    ELSE
        ValuesLoopOneBased(FormatTuple(acc, items[i].id,
                                       Variables(columns, acc.eff.variables),
                                       Prepare(columns, items[i].id, acc.eff.objs[items[i].id],
                                               fresh + acc.eff.allocs),
                                       strict),
                           columns, items, i + 1, fresh, strict)

\* the loop of lines 167-172 from element i on: acc holds the tuples so far and
\* the effects so far, and fail the error thrown, if any
RECURSIVE ValuesLoop(_, _, _, _, _, _)
ValuesLoop(acc, columns, items, i, fresh, strict) ==
    IF i > Len(items) \/ ~acc.fail.ok THEN acc
    ELSE IF items[i].k = "prim" THEN
        [acc EXCEPT !.fail = Failed("Error", "Invalid update object at index "
                                              \o ToString(i - 1) \o ".")]
    ELSE
        ValuesLoop(FormatTuple(acc, items[i].id,
                               Variables(columns, acc.eff.variables),
                               Prepare(columns, items[i].id, acc.eff.objs[items[i].id],
                                       fresh + acc.eff.allocs),
                               strict),
                   columns, items, i + 1, fresh, strict)

\* the alias as it would be if only a missing alias gave the default
AliasUnlessNull(options, given, default) ==
    IF Truthy(options.v) /\ ~IsNull(given) THEN ToStr(given) ELSE default

\* lines 140-148: the alias given by the options, or the default
Alias(options, given, default) ==
    IF Truthy(options.v) /\ Truthy(given) THEN ToStr(given) ELSE default

\* lines 163-165: the SET clause of the multi-row query
TargetCols(actualColumns, valueAlias) ==
    JoinText([i \in DOMAIN actualColumns |->
                T(actualColumns[i].escapedName) \o <<Lit("=")>>
                \o T(valueAlias) \o <<Lit(".")>>
                \o T(actualColumns[i].escapedName)
                \o T(actualColumns[i].castText)])

\* line 174 as it would be if the capitalization reached the default table alias
MultiReturnUpperAlias(table, tableAlias, valueAlias, capSQL, actualColumns, loop, names) ==
    Returned(Flat(FormatRaw(MultiQuery(capSQL),
                            <<T(table.name),
                              T(IF capSQL /\ tableAlias = "t" THEN "T" ELSE tableAlias),
                              TargetCols(actualColumns, valueAlias),
                              JoinText(loop.parts), T(valueAlias) \o names.ret>>)),
             [loop.eff EXCEPT !.names = names.cache])

\* line 174, names being what the names getter gave
MultiReturn(table, tableAlias, valueAlias, capSQL, actualColumns, loop, names) ==
    Returned(Flat(FormatRaw(MultiQuery(capSQL),
                            <<T(table.name), T(tableAlias),
                              TargetCols(actualColumns, valueAlias),
                              JoinText(loop.parts), T(valueAlias) \o names.ret>>)),
             [loop.eff EXCEPT !.names = names.cache])

\* lines 167-174, loop being the result of the loop over the data
MultiValues(columns, table, tableAlias, valueAlias, capSQL, actualColumns, loop) ==
    IF ~loop.fail.ok THEN Thrown(loop.fail.type, loop.fail.err, loop.eff)
    ELSE MultiReturn(table, tableAlias, valueAlias, capSQL, actualColumns, loop,
                     Names(columns, loop.eff.names))

\* lines 155-174, actualColumns being the columns that are not conditional
MultiColumns(data, columns, table, tableAlias, valueAlias, capSQL, actualColumns, eff, fresh, strict) ==
    IF Len(actualColumns) = 0 THEN
        Thrown("Error", "Cannot generate a valid UPDATE without any columns.", eff)
    ELSE MultiValues(columns, table, tableAlias, valueAlias, capSQL, actualColumns,
                     ValuesLoop([parts |-> <<>>, eff |-> eff, fail |-> [ok |-> TRUE]],
                                columns, data.items, 1, fresh, strict))

\* the multi-row branch as it would be if the conditional columns were set too
UpdateMultiAllColumns(data, columns, table, options, capSQL, eff, fresh, strict) ==
    MultiColumns(data, columns, table,
                 Alias(options, options.tableAlias, "t"),
                 Alias(options, options.valueAlias, "v"),
                 capSQL, columns, eff, fresh, strict)

\* the multi-row branch of update, lines 137-175
UpdateMulti(data, columns, table, options, capSQL, eff, fresh, strict) ==
    MultiColumns(data, columns, table,
                 Alias(options, options.tableAlias, "t"),
                 Alias(options, options.valueAlias, "v"),
                 capSQL, SelectSeq(columns, LAMBDA c : ~Truthy(c.cnd)), eff, fresh, strict)

\* line 188, f being what the formatter gave for the updates
SingleReturn(table, capSQL, eff, f) ==
    IF ~f.ok THEN Thrown(f.type, f.err, eff)
    ELSE Returned(Flat(FormatRaw(SingleQuery(capSQL), <<T(table.name)>>)) \o Flat(f.txt), eff)

\* line 188 as it would be if prepare were called before getUpdates
SinglePreparedFirst(id, table, capSQL, eff, got, prep, strict) ==
    SingleReturn(table, capSQL,
                 [eff EXCEPT !.calls = prep.calls \o eff.calls, !.allocs = 1,
                             !.objs = [eff.objs EXCEPT ![id] = prep.src]],
                 FormatNamed(got.ret, prep.target, strict))

\* line 188, got being what getUpdates gave and prep what prepare gave
SinglePrepared(id, table, capSQL, eff, got, prep, strict) ==
    SingleReturn(table, capSQL,
                 [eff EXCEPT !.calls = eff.calls \o prep.calls, !.allocs = 1,
                             !.objs = [eff.objs EXCEPT ![id] = prep.src]],
                 FormatNamed(got.ret, prep.target, strict))

\* lines 179-188, got being what getUpdates gave
SingleUpdates(data, columns, table, capSQL, eff, got, fresh, strict) ==
    IF Flat(got.ret) = "" THEN
        Thrown("Error", "Cannot generate a valid UPDATE without any columns.", eff)
    ELSE SinglePrepared(data.id, table, capSQL, eff, got,
                        Prepare(columns, data.id, eff.objs[data.id], fresh), strict)

\* lines 177-188, got being what getUpdates gave
SingleGot(data, columns, table, capSQL, eff, got, fresh, strict) ==
    SingleUpdates(data, columns, table, capSQL,
                  [eff EXCEPT !.updates = got.cache, !.calls = eff.calls \o got.calls],
                  got, fresh, strict)

\* the single-object branch of update, lines 177-188
UpdateSingle(data, columns, table, capSQL, eff, fresh, strict) ==
    SingleGot(data, columns, table, capSQL, eff,
              GetUpdates(columns, eff.updates, eff.objs[data.id]), fresh, strict)

NoFault == [ok |-> TRUE, type |-> "", err |-> ""]

\* line 111 as it would be if the check were made for non-empty arrays only
ColumnsMissingNonEmpty(data, columns) ==
    data.k = "arr" /\ Len(data.items) > 0 /\ columns.k = "prim" /\ IsNull(columns.v)

\* line 111: an array of data without columns
ColumnsMissing(data, columns) ==
    data.k = "arr" /\ columns.k = "prim" /\ IsNull(columns.v)

\* the checks as they would be with the table checked before the options
UpdateFaultTableFirst(data, columns, cset, tbl, options) ==
    IF data.k = "prim" THEN
        Failed("TypeError", "Invalid parameter 'data' specified.")
    ELSE IF columns.k # "set" /\ ColumnsMissing(data, columns) THEN
        Failed("TypeError", "Parameter 'columns' is required when updating multiple records.")
    ELSE IF ~cset.ok THEN
        Failed(cset.type, cset.err)
    ELSE IF data.k = "arr" /\ Len(data.items) = 0 THEN
        Failed("TypeError", "Cannot generate an UPDATE from an empty array.")
    ELSE IF ~Truthy(tbl.v) THEN
        Failed("Error", "Table name is unknown.")
    ELSE IF ~IsNull(options.v) /\ options.v.k # "obj" THEN
        Failed("TypeError", "Invalid parameter 'options' specified.")
    ELSE IF tbl.v.k # "tn" /\ ~TableName(tbl, Undef).ok THEN
        Failed(TableName(tbl, Undef).type, TableName(tbl, Undef).err)
    ELSE NoFault

\* the checks of lines 100-131 in their order: the first error thrown, if any.
\* cset is the ColumnSet used (line 106 or 114), tbl the table after line 109.
UpdateFault(data, columns, cset, tbl, options) ==
    IF data.k = "prim" THEN
        Failed("TypeError", "Invalid parameter 'data' specified.")
    ELSE IF columns.k # "set" /\ ColumnsMissing(data, columns) THEN
        Failed("TypeError", "Parameter 'columns' is required when updating multiple records.")
    ELSE IF ~cset.ok THEN
        Failed(cset.type, cset.err)
    ELSE IF data.k = "arr" /\ Len(data.items) = 0 THEN
        Failed("TypeError", "Cannot generate an UPDATE from an empty array.")
    ELSE IF ~IsNull(options.v) /\ options.v.k # "obj" THEN
        Failed("TypeError", "Invalid parameter 'options' specified.")
    ELSE IF ~Truthy(tbl.v) THEN
        Failed("Error", "Table name is unknown.")
    ELSE IF tbl.v.k # "tn" /\ ~TableName(tbl, Undef).ok THEN
        Failed(TableName(tbl, Undef).type, TableName(tbl, Undef).err)
    ELSE NoFault

\* the ColumnSet that update uses, lines 106-115
UpdateColumnSet(data, columns, objs) ==
    IF columns.k = "set" THEN columns.set[1]
    ELSE ColumnSet(IF columns.k = "prim" /\ ~Truthy(columns.v)
                   THEN DataAsColumns(data, objs) ELSE columns, NoOptions)

\* the table that update would use if that of the ColumnSet came first
UpdateTableOfSetFirst(columns, table) ==
    IF columns.k = "set" /\ columns.set[1].table.ok THEN TInst(columns.set[1].table)
    ELSE table

\* the table that update uses, lines 106-109
UpdateTable(columns, table) ==
    IF columns.k = "set" /\ IsNull(table.v)
    THEN (IF columns.set[1].table.ok THEN TInst(columns.set[1].table) ELSE TPrim(Undef))
    ELSE table

\* lines 129-131: the TableName that update uses
UpdateTableName(tbl) == IF tbl.v.k = "tn" THEN tbl.tn ELSE TableName(tbl, Undef)

\* the closure variables of a temporary ColumnSet are gone with it when update
\* returns: those of env stay as they are
Out(isSet, env, r) ==
    IF isSet THEN r
    ELSE [r EXCEPT !.eff.names = env.names,
                   !.eff.variables = env.variables,
                   !.eff.updates = env.updates]

\* lines 133-188: the branches, on the ColumnSet cset and the TableName tn; a
\* temporary ColumnSet starts with its own closure variables
UpdateBranch(data, isSet, cset, tn, options, capSQL, env, strict) ==
    IF data.k = "arr" THEN
        Out(isSet, env,
            UpdateMulti(data, cset.columns, tn, options, capSQL,
                        IF isSet
                        THEN Effects(env.names, env.variables, env.updates, <<>>, 0, env.objs)
                        ELSE Effects(Unset, Unset, Unset, <<>>, 0, env.objs),
                        env.fresh, strict))
    ELSE
        Out(isSet, env,
            UpdateSingle(data, cset.columns, tn, capSQL,
                         IF isSet
                         THEN Effects(env.names, env.variables, env.updates, <<>>, 0, env.objs)
                         ELSE Effects(Unset, Unset, Unset, <<>>, 0, env.objs),
                         env.fresh, strict))

\* lines 100-188, fault being the first error of the checks, if any
UpdateChecked(data, isSet, cset, tbl, fault, options, capSQL, env, strict) ==
    IF ~fault.ok
    THEN Thrown(fault.type, fault.err,
                Effects(env.names, env.variables, env.updates, <<>>, 0, env.objs))
    ELSE UpdateBranch(data, isSet, cset, UpdateTableName(tbl), options, capSQL, env, strict)

\* lines 100-188, cset being the ColumnSet used and tbl the table after line 109
UpdateWith(data, columns, cset, tbl, options, capSQL, env, strict) ==
    UpdateChecked(data, columns.k = "set", cset, tbl,
                  UpdateFault(data, columns, cset, tbl, options),
                  options, capSQL, env, strict)

\* update(data, columns, table, options, capSQL), lines 98-189. env holds the
\* closure variables of the ColumnSet passed as columns (when one is passed), the
\* objects, and the next fresh reference; strict is the formatter's choice.
Update(data, columns, table, options, capSQL, env, strict) ==
    UpdateWith(data, columns, UpdateColumnSet(data, columns, env.objs),
               UpdateTable(columns, table), options, capSQL, env, strict)

(* ----------------------------- the state machine ------------------------ *)

VARIABLES
    cs,         \* the ColumnSet under test: [columns, table]
    names,      \* its closure variable names
    variables,  \* its closure variable variables
    updates,    \* its closure variable updates
    heap,       \* the source objects, by reference
    nextId,     \* the reference of the next object allocated
    op,         \* the last call made: its name and arguments
    res,        \* what the last call returned or threw
    calls       \* the callbacks the last call made, in order

vars == <<cs, names, variables, updates, heap, nextId, op, res, calls>>

\* the column details the ColumnSet under test is built from
ColumnDetails ==
    << Prim(Str("?id")),
       Config([NoFields EXCEPT !.name = Str("id"), !.cnd = Bool(TRUE), !.skip = Fn("always"),
                               !.init = Fn("self")]),
       Config([NoFields EXCEPT !.name = Str("val"), !.skip = Fn("missing"),
                               !.cast = Str("::int")]),
       Config([NoFields EXCEPT !.name = Str("msg"), !.def = Num(5), !.init = Fn("dbl")]),
       Config([NoFields EXCEPT !.name = Str("msg"), !.prop = Str("val"), !.init = Fn("dbl"),
                               !.mod = Str("^")]),
       Config([NoFields EXCEPT !.name = Str("id"), !.def = Num(5)]) >>

\* the arrays of at most MaxCols column details
ColumnArrays == UNION {[1..n -> DOMAIN ColumnDetails] : n \in 0..MaxCols}

\* the source objects, by reference
SourceObjects ==
    << Object(<<P("id", Num(1)), P("val", Num(123)), P("msg", Str("hello"))>>, <<>>),
       Object(<<P("id", Num(2)), P("val", Num(456)), P("msg", Str("world!"))>>, <<>>),
       Object(<<>>, <<>>),
       Object(<<P("id", Num(4))>>, <<P("msg", Str("proto"))>>) >>

\* the first reference that prepare can allocate
FirstFresh == Len(SourceObjects) + 1

\* the data passed to canUpdate and update
DataValues ==
    << DObj(1), DObj(3), DObj(4), DArr(<<>>), DArr(<<DObj(1)>>), DArr(<<DObj(1), DObj(2)>>),
       DArr(<<DObj(3), DPrim(Null)>>), DArr(<<DPrim(Num(7)), DPrim(Null)>>), DPrim(Null) >>

\* no call in progress: the caller is between two calls
NoCall == [name |-> "idle", id |-> 0, data |-> DPrim(Undef), columns |-> CPrim(Undef),
           table |-> TPrim(Undef), options |-> UPrim(Undef), capSQL |-> FALSE,
           inherit |-> Absent, col |-> Prim(Undef), schema |-> Absent]

NoResult == [ok |-> TRUE, ret |-> "", bool |-> FALSE, type |-> "", err |-> "",
             ref |-> 0, target |-> NoObject, writes |-> <<>>,
             column |-> NoColumn, tn |-> NoTable]

Idle == op.name = "idle"

Init ==
    /\ \E items \in ColumnArrays :
          LET made == ColumnSet(CArr([i \in DOMAIN items |-> ColumnDetails[items[i]]]),
                                Options(TPrim(Str("my-table")), Absent))
          IN made.ok /\ cs = made
    /\ names = Unset
    /\ variables = Unset
    /\ updates = Unset
    /\ heap = SourceObjects
    /\ nextId = FirstFresh
    /\ op = NoCall
    /\ res = NoResult
    /\ calls = <<>>

\* reading cs.names
GetNames ==
    LET r == Names(cs.columns, names)
    IN /\ Idle
       /\ names' = r.cache
       /\ op' = [NoCall EXCEPT !.name = "names"]
       /\ res' = [NoResult EXCEPT !.ret = Flat(r.ret)]
       /\ calls' = <<>>
       /\ UNCHANGED <<cs, variables, updates, heap, nextId>>

\* reading cs.variables
GetVariables ==
    LET r == Variables(cs.columns, variables)
    IN /\ Idle
       /\ variables' = r.cache
       /\ op' = [NoCall EXCEPT !.name = "variables"]
       /\ res' = [NoResult EXCEPT !.ret = Flat(r.ret)]
       /\ calls' = <<>>
       /\ UNCHANGED <<cs, names, updates, heap, nextId>>

\* cs.getUpdates(obj)
CallGetUpdates ==
    \E id \in DOMAIN heap :
        LET r == GetUpdates(cs.columns, updates, heap[id])
        IN /\ Idle
           /\ updates' = r.cache
           /\ op' = [NoCall EXCEPT !.name = "getUpdates", !.id = id]
           /\ res' = [NoResult EXCEPT !.ret = Flat(r.ret)]
           /\ calls' = r.calls
           /\ UNCHANGED <<cs, names, variables, heap, nextId>>

\* cs.canUpdate(data)
CallCanUpdate ==
    \E d \in DOMAIN DataValues :
        LET r == CanUpdate(cs.columns, DataValues[d], heap)
        IN /\ Idle
           /\ op' = [NoCall EXCEPT !.name = "canUpdate", !.data = DataValues[d]]
           /\ res' = IF r.ok THEN [NoResult EXCEPT !.bool = r.ret]
                     ELSE [NoResult EXCEPT !.ok = FALSE, !.type = r.type, !.err = r.err]
           /\ calls' = r.calls
           /\ UNCHANGED <<cs, names, variables, updates, heap, nextId>>

\* cs.prepare(obj)
CallPrepare ==
    \E id \in DOMAIN heap :
        LET r == Prepare(cs.columns, id, heap[id], nextId)
        IN /\ Idle
           /\ nextId - FirstFresh < MaxAlloc
           /\ heap' = [heap EXCEPT ![id] = r.src]
           /\ nextId' = nextId + 1
           /\ op' = [NoCall EXCEPT !.name = "prepare", !.id = id]
           /\ res' = [NoResult EXCEPT !.ref = r.ref, !.target = r.target,
                                       !.writes = r.writes]
           /\ calls' = r.calls
           /\ UNCHANGED <<cs, names, variables, updates>>

\* the step of a call of update with these arguments that gives r
UpdateDone(data, columns, table, options, capSQL, r) ==
    /\ Idle
    /\ nextId - FirstFresh + r.eff.allocs <= MaxAlloc
    /\ names' = r.eff.names
    /\ variables' = r.eff.variables
    /\ updates' = r.eff.updates
    /\ heap' = r.eff.objs
    /\ nextId' = nextId + r.eff.allocs
    /\ op' = [NoCall EXCEPT !.name = "update", !.data = data, !.columns = columns,
                            !.table = table, !.options = options, !.capSQL = capSQL]
    /\ res' = [NoResult EXCEPT !.ok = r.ok, !.ret = r.ret, !.type = r.type, !.err = r.err]
    /\ calls' = r.eff.calls
    /\ UNCHANGED cs

\* the step of a call of update with these arguments
UpdateStep(data, columns, table, options, capSQL, strict) ==
    UpdateDone(data, columns, table, options, capSQL,
               Update(data, columns, table, options, capSQL,
                      [names |-> names, variables |-> variables, updates |-> updates,
                       objs |-> heap, fresh |-> nextId],
                      strict))

\* update(data, cs, table) with the ColumnSet under test
CallUpdate ==
    \E d \in DOMAIN DataValues, table \in {Undef, Str("my-table"), Num(5)}, strict \in BOOLEAN :
        UpdateStep(DataValues[d], CSet(cs), TPrim(table), UPrim(Undef), FALSE, strict)

\* the caller takes the result and is free to make the next call
Return ==
    /\ ~Idle
    /\ op' = NoCall
    /\ res' = NoResult
    /\ calls' = <<>>
    /\ UNCHANGED <<cs, names, variables, updates, heap, nextId>>

Next ==
    \/ GetNames
    \/ GetVariables
    \/ CallGetUpdates
    \/ CallCanUpdate
    \/ CallPrepare
    \/ CallUpdate
    \/ Return

Spec == Init /\ [][Next]_vars

(* ------------- the state machine of update with any arguments ----------- *)

\* the column details of the ColumnSets that update is called with
ArgColumnArrays == << <<>>, <<1>>, <<2, 6>>, <<1, 3, 4>> >>

\* what is passed as columns, cset being the ColumnSet under test
ArgColumns(cset) ==
    << CSet(cset), CPrim(Null), CPrim(Undef), CPrim(Num(5)),
       CArr(<<Prim(Str("?id")), Prim(Str("val")), Prim(Str("msg"))>>),
       CArr(<<Prim(Str("val")), Prim(Num(7))>>) >>

\* what is passed as table
ArgTables ==
    << TPrim(Undef), TPrim(Str("")), TPrim(Str("my-table")), TPrim(Num(5)),
       TRec(Str("other"), Str("sch")), TRec(Str(""), Absent) >>

\* what is passed as options
ArgOptions ==
    << UPrim(Undef), UPrim(Str("x")), UOpts(Str("X"), Str("Y")), UOpts(Str(""), Num(7)) >>

InitArgs ==
    /\ \E a \in DOMAIN ArgColumnArrays, table \in {Absent, Str("my-table")} :
          LET items == ArgColumnArrays[a]
              made == ColumnSet(CArr([i \in DOMAIN items |-> ColumnDetails[items[i]]]),
                                Options(TPrim(table), Absent))
          IN made.ok /\ cs = made
    /\ names = Unset
    /\ variables = Unset
    /\ updates = Unset
    /\ heap = SourceObjects
    /\ nextId = FirstFresh
    /\ op = NoCall
    /\ res = NoResult
    /\ calls = <<>>

\* update(data, columns, table, options, capSQL)
CallUpdateArgs ==
    \E d \in DOMAIN DataValues, c \in DOMAIN ArgColumns(cs), t \in DOMAIN ArgTables,
       o \in DOMAIN ArgOptions, capSQL \in BOOLEAN, strict \in BOOLEAN :
        UpdateStep(DataValues[d], ArgColumns(cs)[c], ArgTables[t], ArgOptions[o], capSQL, strict)

NextArgs ==
    \/ CallUpdateArgs
    \/ Return

SpecArgs == InitArgs /\ [][NextArgs]_vars

(* ------ the state machine of a new ColumnSet and of the caller's writes ----- *)

\* the plain objects that a ColumnSet is constructed from
PlainObjects ==
    << Object(<<P("id", Num(1)), P("val", Num(2))>>, <<P("msg", Str("proto"))>>),
       Object(<<P("val", Num(2)), P("id", Num(1))>>, <<>>),
       Object(<<P("?id", Num(1)), P("msg^", Num(2))>>, <<>>),
       Object(<<>>, <<P("id", Num(1))>>) >>

\* what is passed to the constructor as columns
NewColumns ==
    << CObj(PlainObjects[1]), CObj(PlainObjects[2]), CObj(PlainObjects[3]),
       CObj(PlainObjects[4]),
       CArr(<<Prim(Str("?id")), Prim(Str("val"))>>),
       CCol(Column(Prim(Str("id")))) >>

\* what is passed to the constructor as options
NewOptions ==
    << NoOptions,
       Options(TPrim(Str("my-table")), Absent),
       Options(TPrim(Absent), Bool(TRUE)),
       Options(TRec(Str("other"), Str("sch")), Bool(TRUE)) >>

\* the column details that the caller makes Columns of to write into cs.columns
WrittenDetails == <<Prim(Str("val")), ColumnDetails[2]>>

\* the call new ColumnSet(columns, options) as the caller made it
NewCall(columns, options) ==
    [NoCall EXCEPT !.name = "new", !.columns = columns, !.table = options.table,
                   !.options = UPrim(options.v), !.inherit = options.inherit]

\* an assignment to a property of the frozen ColumnSet, of one of its frozen
\* Columns or of its frozen TableName: nothing changes, and the caller gets a
\* TypeError when its code is in strict mode
AssignFrozen ==
    \E target \in {"cs.columns", "cs.table", "cs.columns[0].name", "cs.table.name"},
       strictMode \in BOOLEAN :
        /\ Idle
        /\ target = "cs.columns[0].name" => Len(cs.columns) > 0
        /\ target = "cs.table.name" => cs.table.ok
        /\ op' = [NoCall EXCEPT !.name = "assign", !.data = DPrim(Str(target))]
        /\ res' = IF strictMode THEN [NoResult EXCEPT !.ok = FALSE, !.type = "TypeError"]
                  ELSE NoResult
        /\ calls' = <<>>
        /\ UNCHANGED <<cs, names, variables, updates, heap, nextId>>

\* cs.columns.push(new Column(col)): the array that this.columns holds is not
\* frozen by Object.freeze(this)
PushColumn ==
    \E d \in DOMAIN WrittenDetails :
        /\ Idle
        /\ Len(cs.columns) < MaxCols
        /\ cs' = [cs EXCEPT !.columns = Append(@, Column(WrittenDetails[d]))]
        /\ op' = [NoCall EXCEPT !.name = "push"]
        /\ res' = NoResult
        /\ calls' = <<>>
        /\ UNCHANGED <<names, variables, updates, heap, nextId>>

\* cs.columns[i - 1] = new Column(col)
SetElement ==
    \E i \in DOMAIN cs.columns, d \in DOMAIN WrittenDetails :
        /\ Idle
        /\ cs' = [cs EXCEPT !.columns[i] = Column(WrittenDetails[d])]
        /\ op' = [NoCall EXCEPT !.name = "set", !.id = i]
        /\ res' = NoResult
        /\ calls' = <<>>
        /\ UNCHANGED <<names, variables, updates, heap, nextId>>

\* cs.columns.pop()
PopColumn ==
    /\ Idle
    /\ Len(cs.columns) > 0
    /\ cs' = [cs EXCEPT !.columns = SubSeq(@, 1, Len(@) - 1)]
    /\ op' = [NoCall EXCEPT !.name = "pop"]
    /\ res' = NoResult
    /\ calls' = <<>>
    /\ UNCHANGED <<names, variables, updates, heap, nextId>>

\* given.push(col), given being the array that was passed to the constructor,
\* which the caller still holds: this.columns is another array (line 102)
WriteGiven ==
    /\ op.name = "new"
    /\ op.columns.k = "arr"
    /\ Len(op.columns.items) <= MaxCols
    /\ op' = [op EXCEPT !.columns = CArr(Append(op.columns.items, Prim(Str("msg"))))]
    /\ UNCHANGED <<cs, names, variables, updates, heap, nextId, res, calls>>

\* the state after the first new ColumnSet(columns, options): the caller still
\* holds what it passed, or has moved on
InitNew ==
    /\ \E c \in DOMAIN NewColumns, o \in DOMAIN NewOptions :
          /\ ColumnSet(NewColumns[c], NewOptions[o]).ok
          /\ cs = ColumnSet(NewColumns[c], NewOptions[o])
          /\ op \in {NoCall, NewCall(NewColumns[c], NewOptions[o])}
    /\ names = Unset
    /\ variables = Unset
    /\ updates = Unset
    /\ heap = SourceObjects
    /\ nextId = FirstFresh
    /\ res = NoResult
    /\ calls = <<>>

NextNew ==
    \/ GetNames
    \/ GetVariables
    \/ CallCanUpdate
    \/ AssignFrozen
    \/ PushColumn
    \/ SetElement
    \/ PopColumn
    \/ WriteGiven
    \/ Return

SpecNew == InitNew /\ [][NextNew]_vars

(* ------- the state machine of the constructors Column and TableName ------ *)

\* the most pieces that a string passed to the Column constructor is made of
MaxPieces == 3

\* the pieces of the strings passed to the Column constructor
Pieces ==
    << "?", "a", "id", "^", "~", "#", ":", "ra", "w", ":raw", ":name", ":json", ":csv",
       ":value" >>

\* the strings passed to the Column constructor
ColumnStrings ==
    {JoinChars([i \in DOMAIN p |-> Pieces[p[i]]]) : p \in UNION {[1..n -> DOMAIN Pieces] : n \in 0..MaxPieces}}

\* the configurator objects passed to the Column constructor
ColumnConfigs ==
    {Config([NoFields EXCEPT !.name = n, !.prop = p, !.mod = m, !.cnd = c]) :
        n \in {Absent, Undef, Str(""), Str("id"), Str("?a^"), Num(5)},
        p \in {Absent, Undef, Str(""), Str("a"), Num(0)},
        m \in {Absent, Undef, Str("^"), Num(1)},
        c \in {Absent, Undef, Bool(TRUE), Num(0)}}

\* what else is passed to the Column constructor
ColumnOthers == {Prim(v) : v \in {Undef, Null, Num(5), Bool(TRUE), Fn("dbl")}}

\* c.mod, c.cnd, ... read from a Column: undefined when it has no such property
Read(v) == IF v.k = "absent" THEN Undef ELSE v

\* the configurator {name: c.name, mod: c.mod, cnd: c.cnd} of a Column c
CanonicalConfig(c) ==
    Config([NoFields EXCEPT !.name = Str(c.name), !.mod = Read(c.mod), !.cnd = Read(c.cnd)])

\* the string (c.cnd ? '?' : '') + c.name + (c.mod || '') of a Column c
CanonicalString(c) ==
    Prim(Str((IF Truthy(c.cnd) THEN "?" ELSE "") \o c.name
             \o (IF Truthy(c.mod) THEN c.mod.s ELSE "")))

\* what a constructor call leaves with the caller: the instance or the error
Made(r, field) ==
    IF r.ok THEN [NoResult EXCEPT ![field] = r]
    ELSE [NoResult EXCEPT !.ok = FALSE, !.type = r.type, !.err = r.err]

\* new Column(col)
NewColumn ==
    \E col \in {Prim(Str(s)) : s \in ColumnStrings} \cup ColumnConfigs \cup ColumnOthers :
        /\ Idle
        /\ op' = [NoCall EXCEPT !.name = "Column", !.col = col]
        /\ res' = Made(Column(col), "column")
        /\ calls' = <<>>
        /\ UNCHANGED <<cs, names, variables, updates, heap, nextId>>

\* new Column(...) from the fields of the Column just made: op.id tells which of
\* the two forms the caller took, op.col still is what the first one was made of
ColumnAgain ==
    \E form \in 1..2 :
        /\ op.name = "Column"
        /\ res.ok
        /\ op' = [op EXCEPT !.name = "ColumnAgain", !.id = form]
        /\ res' = Made(Column(IF form = 1 THEN CanonicalConfig(res.column)
                              ELSE CanonicalString(res.column)), "column")
        /\ UNCHANGED <<cs, names, variables, updates, heap, nextId, calls>>

\* what is passed to the TableName constructor as table and as schema
TableInputs ==
    {TPrim(v) : v \in {Undef, Null, Str(""), Str("t"), Num(5), Bool(TRUE)}}
    \cup {TRec(t, s) : t \in {Absent, Undef, Str(""), Str("t"), Num(5)},
                       s \in {Absent, Undef, Null, Str(""), Str("s"), Num(5)}}
SchemaInputs == {Absent, Undef, Null, Str(""), Str("s"), Str("z"), Num(5)}

\* new TableName(table, schema)
NewTableName ==
    \E table \in TableInputs, schema \in SchemaInputs :
        /\ Idle
        /\ op' = [NoCall EXCEPT !.name = "TableName", !.table = table, !.schema = schema]
        /\ res' = Made(TableName(table, schema), "tn")
        /\ calls' = <<>>
        /\ UNCHANGED <<cs, names, variables, updates, heap, nextId>>

\* tn.toString() of the TableName just made, lines 85-87
TableToString ==
    /\ op.name = "TableName"
    /\ res.ok
    /\ op' = [op EXCEPT !.name = "toString"]
    /\ res' = [res EXCEPT !.ret = res.tn.name]
    /\ UNCHANGED <<cs, names, variables, updates, heap, nextId, calls>>

\* an assignment to a property of the frozen TableName just made, or one that
\* would add a property: nothing changes, and the caller gets a TypeError when its
\* code is in strict mode
AssignTableName ==
    \E target \in {"name", "table", "schema", "other"}, strictMode \in BOOLEAN :
        /\ op.name \in {"TableName", "toString"}
        /\ res.ok
        /\ op' = [op EXCEPT !.name = "assign", !.data = DPrim(Str(target))]
        /\ res' = IF strictMode THEN [res EXCEPT !.ok = FALSE, !.type = "TypeError"] ELSE res
        /\ UNCHANGED <<cs, names, variables, updates, heap, nextId, calls>>

InitCtor ==
    /\ cs = ColumnSet(CArr(<<>>), NoOptions)
    /\ names = Unset
    /\ variables = Unset
    /\ updates = Unset
    /\ heap = SourceObjects
    /\ nextId = FirstFresh
    /\ op = NoCall
    /\ res = NoResult
    /\ calls = <<>>

NextCtor ==
    \/ NewColumn
    \/ ColumnAgain
    \/ NewTableName
    \/ TableToString
    \/ AssignTableName
    \/ Return

SpecCtor == InitCtor /\ [][NextCtor]_vars

(* ------ the state machine of a ColumnSet among calls that may throw ------ *)

\* what the caller passes to the Column constructor besides the ColumnSet
OtherDetails ==
    << Prim(Num(5)), Prim(Str("?")), Config(NoFields),
       Config([NoFields EXCEPT !.name = Str("id"), !.prop = Undef]), ColumnDetails[3] >>

\* what the caller passes to the ColumnSet constructor besides the ColumnSet
OtherColumns ==
    << CPrim(Num(5)), CPrim(Null), CArr(<<Prim(Str("val")), Prim(Num(7))>>),
       CArr(<<Prim(Str("?id")), Prim(Str("val"))>>) >>
OtherOptions ==
    << NoOptions, [NoOptions EXCEPT !.v = Str("x")], Options(TPrim(Str("")), Absent),
       Options(TRec(Str("t"), Num(5)), Absent) >>

\* what a constructor call made besides the ColumnSet leaves with the caller: the
\* error thrown, if any (the instance made is of no concern to the ColumnSet)
Tried(r) ==
    IF r.ok THEN NoResult ELSE [NoResult EXCEPT !.ok = FALSE, !.type = r.type, !.err = r.err]

\* new Column(col), by the caller of the ColumnSet
OtherColumn ==
    \E d \in DOMAIN OtherDetails :
        /\ Idle
        /\ op' = [NoCall EXCEPT !.name = "Column", !.col = OtherDetails[d]]
        /\ res' = Tried(Column(OtherDetails[d]))
        /\ calls' = <<>>
        /\ UNCHANGED <<cs, names, variables, updates, heap, nextId>>

\* new ColumnSet(columns, options), by the caller of the ColumnSet
OtherColumnSet ==
    \E c \in DOMAIN OtherColumns, o \in DOMAIN OtherOptions :
        /\ Idle
        /\ op' = [NewCall(OtherColumns[c], OtherOptions[o]) EXCEPT !.name = "ColumnSet"]
        /\ res' = Tried(ColumnSet(OtherColumns[c], OtherOptions[o]))
        /\ calls' = <<>>
        /\ UNCHANGED <<cs, names, variables, updates, heap, nextId>>

\* update(data, columns, 'my-table') with columns that make the ColumnSet
\* constructor of line 114, or the Column constructor it calls, throw
CallUpdateOther ==
    \E d \in DOMAIN DataValues, c \in {1, 3} :
        UpdateStep(DataValues[d], OtherColumns[c], TPrim(Str("my-table")), UPrim(Undef),
                   FALSE, FALSE)

NextFault ==
    \/ GetNames
    \/ GetVariables
    \/ CallGetUpdates
    \/ CallCanUpdate
    \/ CallPrepare
    \/ CallUpdate
    \/ OtherColumn
    \/ OtherColumnSet
    \/ CallUpdateOther
    \/ Return

SpecFault == Init /\ [][NextFault]_vars

(* ---- the state machine of callers interleaved in the getters of a ColumnSet ---- *)

\* the callers that share the ColumnSet
MaxCallers == 2
Callers == 1..MaxCallers

\* the frame of a caller: the getter it is in, the statement it is at, the
\* reference passed to getUpdates, and the local variables list and dynamic
NoFrame == [name |-> "idle", pc |-> "", id |-> 0, list |-> <<>>, dynamic |-> FALSE]

\* the objects passed to getUpdates
RaceObjects == DOMAIN SourceObjects

\* the caller goes on to the statement pc of the getter it is in
Goto(c, pc) == op' = [op EXCEPT ![c].pc = pc]

\* the caller is at the statement pc of the getter
At(c, name, pc) == op[c].name = name /\ op[c].pc = pc

InitRace ==
    /\ \E items \in ColumnArrays :
          LET made == ColumnSet(CArr([i \in DOMAIN items |-> ColumnDetails[items[i]]]),
                                Options(TPrim(Str("my-table")), Absent))
          IN made.ok /\ cs = made
    /\ names = Unset
    /\ variables = Unset
    /\ updates = Unset
    /\ heap = SourceObjects
    /\ nextId = FirstFresh
    /\ op = [c \in Callers |-> NoFrame]
    /\ res = [c \in Callers |-> NoResult]
    /\ calls = [c \in Callers |-> <<>>]

\* the names getter, line 127: if (!names)
NamesCheck(c) ==
    /\ op[c].name = "idle"
    /\ op' = [op EXCEPT ![c] = [NoFrame EXCEPT !.name = "names",
                                  !.pc = IF Filled(names) THEN "return" ELSE "join"]]
    /\ UNCHANGED <<cs, names, variables, updates, heap, nextId, res, calls>>

\* lines 128-130, the right-hand side: the escaped names joined
NamesJoin(c) ==
    /\ At(c, "names", "join")
    /\ op' = [op EXCEPT ![c].pc = "write",
                        ![c].list = JoinText([i \in DOMAIN cs.columns |->
                                                 T(cs.columns[i].escapedName)])]
    /\ UNCHANGED <<cs, names, variables, updates, heap, nextId, res, calls>>

\* line 128, the assignment to names
NamesWrite(c) ==
    /\ At(c, "names", "write")
    /\ names' = Cached(op[c].list)
    /\ Goto(c, "check2")
    /\ UNCHANGED <<cs, variables, updates, heap, nextId, res, calls>>

\* line 131: if (names)
NamesCheck2(c) ==
    /\ At(c, "names", "check2")
    /\ Goto(c, IF Filled(names) THEN "wrap" ELSE "return")
    /\ UNCHANGED <<cs, names, variables, updates, heap, nextId, res, calls>>

\* line 132, the right-hand side: '(' + names + ')'
NamesWrap(c) ==
    /\ At(c, "names", "wrap")
    /\ op' = [op EXCEPT ![c].pc = "write2",
                        ![c].list = <<Lit("(")>> \o names.val \o <<Lit(")")>>]
    /\ UNCHANGED <<cs, names, variables, updates, heap, nextId, res, calls>>

\* line 132, the assignment to names
NamesWrite2(c) ==
    /\ At(c, "names", "write2")
    /\ names' = Cached(op[c].list)
    /\ Goto(c, "return")
    /\ UNCHANGED <<cs, variables, updates, heap, nextId, res, calls>>

\* line 135: return names
NamesReturn(c) ==
    /\ At(c, "names", "return")
    /\ res' = [res EXCEPT ![c] = [NoResult EXCEPT !.ret = Flat(names.val)]]
    /\ Goto(c, "done")
    /\ UNCHANGED <<cs, names, variables, updates, heap, nextId, calls>>

\* the variables getter, line 148: if (!variables)
VariablesCheck(c) ==
    /\ op[c].name = "idle"
    /\ op' = [op EXCEPT ![c] = [NoFrame EXCEPT !.name = "variables",
                                  !.pc = IF Filled(variables) THEN "return" ELSE "join"]]
    /\ UNCHANGED <<cs, names, variables, updates, heap, nextId, res, calls>>

\* lines 149-151, the right-hand side: the variables joined
VariablesJoin(c) ==
    /\ At(c, "variables", "join")
    /\ op' = [op EXCEPT ![c].pc = "write", ![c].list = Variables(cs.columns, Unset).ret]
    /\ UNCHANGED <<cs, names, variables, updates, heap, nextId, res, calls>>

\* line 149, the assignment to variables
VariablesWrite(c) ==
    /\ At(c, "variables", "write")
    /\ variables' = Cached(op[c].list)
    /\ Goto(c, "return")
    /\ UNCHANGED <<cs, names, updates, heap, nextId, res, calls>>

\* line 153: return variables
VariablesReturn(c) ==
    /\ At(c, "variables", "return")
    /\ res' = [res EXCEPT ![c] = [NoResult EXCEPT !.ret = Flat(variables.val)]]
    /\ Goto(c, "done")
    /\ UNCHANGED <<cs, names, variables, updates, heap, nextId, calls>>

\* getUpdates(obj), line 158: if (updates)
UpdatesCheck(c) ==
    \E id \in RaceObjects :
        /\ op[c].name = "idle"
        /\ op' = [op EXCEPT ![c] = [NoFrame EXCEPT !.name = "getUpdates", !.id = id,
                                      !.pc = IF Filled(updates) THEN "return" ELSE "filter"]]
        /\ UNCHANGED <<cs, names, variables, updates, heap, nextId, res, calls>>

\* line 159: return updates
UpdatesReturn(c) ==
    /\ At(c, "getUpdates", "return")
    /\ res' = [res EXCEPT ![c] = [NoResult EXCEPT !.ret = Flat(updates.val)]]
    /\ Goto(c, "done")
    /\ UNCHANGED <<cs, names, variables, updates, heap, nextId, calls>>

\* lines 161-175: the locals dynamic and list, and the skip callbacks called
UpdatesFilter(c) ==
    LET r == GetUpdates(cs.columns, Unset, heap[op[c].id])
    IN /\ At(c, "getUpdates", "filter")
       /\ op' = [op EXCEPT ![c].pc = "store", ![c].list = r.ret,
                           ![c].dynamic = (r.calls # <<>>)]
       /\ calls' = [calls EXCEPT ![c] = r.calls]
       /\ UNCHANGED <<cs, names, variables, updates, heap, nextId, res>>

\* lines 176-178 as they would be without the test of dynamic
UpdatesStoreAlways(c) ==
    /\ At(c, "getUpdates", "store")
    /\ updates' = Cached(op[c].list)
    /\ Goto(c, "list")
    /\ UNCHANGED <<cs, names, variables, heap, nextId, res, calls>>

\* lines 176-178: if (!dynamic) updates = list
UpdatesStore(c) ==
    /\ At(c, "getUpdates", "store")
    /\ updates' = IF ~op[c].dynamic THEN Cached(op[c].list) ELSE updates
    /\ Goto(c, "list")
    /\ UNCHANGED <<cs, names, variables, heap, nextId, res, calls>>

\* line 179: return list
UpdatesReturnList(c) ==
    /\ At(c, "getUpdates", "list")
    /\ res' = [res EXCEPT ![c] = [NoResult EXCEPT !.ret = Flat(op[c].list)]]
    /\ Goto(c, "done")
    /\ UNCHANGED <<cs, names, variables, updates, heap, nextId, calls>>

\* the caller takes what the getter returned and is free to make the next call
ReturnTo(c) ==
    /\ op[c].pc = "done"
    /\ op' = [op EXCEPT ![c] = NoFrame]
    /\ res' = [res EXCEPT ![c] = NoResult]
    /\ calls' = [calls EXCEPT ![c] = <<>>]
    /\ UNCHANGED <<cs, names, variables, updates, heap, nextId>>

NextRace ==
    \E c \in Callers :
        \/ NamesCheck(c)
        \/ NamesJoin(c)
        \/ NamesWrite(c)
        \/ NamesCheck2(c)
        \/ NamesWrap(c)
        \/ NamesWrite2(c)
        \/ NamesReturn(c)
        \/ VariablesCheck(c)
        \/ VariablesJoin(c)
        \/ VariablesWrite(c)
        \/ VariablesReturn(c)
        \/ UpdatesCheck(c)
        \/ UpdatesReturn(c)
        \/ UpdatesFilter(c)
        \/ UpdatesStore(c)
        \/ UpdatesReturnList(c)
        \/ ReturnTo(c)

SpecRace == InitRace /\ [][NextRace]_vars

(* ------------------------------- the claims ----------------------------- *)

\* the error messages of update about the shortage of columns and of data
ErrNoColumns == "Cannot generate a valid UPDATE without any columns."
ErrEmptyArray == "Cannot generate an UPDATE from an empty array."

\* the source object of the last getUpdates or prepare call
Source == heap[op.id]

\* the init calls of the last call made for column i
InitCalls(i) == {j \in DOMAIN calls : calls[j].cb = "init" /\ calls[j].col = i}

\* the assignments of the last prepare call made for column i
Writes(i) == {w \in DOMAIN res.writes : res.writes[w].col = i}

Last(S) == CHOOSE x \in S : \A y \in S : y <= x

\* C1: whenever canUpdate(data) returns false for an object or an array, update
\* with the same data and ColumnSet throws, whatever the table.
C1_CanUpdateFalseMeansUpdateThrows ==
    (/\ op.name = "update"
     /\ op.data.k # "prim"
     /\ ~CanUpdate(cs.columns, op.data, heap).ret)
    => ~res.ok

\* C2: whenever canUpdate(data) returns true, update with the same data and
\* ColumnSet fails neither for a shortage of columns nor for an empty array.
C2_CanUpdateTrueMeansNoShortage ==
    (/\ op.name = "update"
     /\ op.data.k # "prim"
     /\ CanUpdate(cs.columns, op.data, heap).ret)
    => res.err \notin {ErrNoColumns, ErrEmptyArray}

\* C2 happens: an update that succeeds after canUpdate is true, with a skip
\* callback consulted
C2_Witness ==
    /\ op.name = "update"
    /\ op.data.k = "obj"
    /\ CanUpdate(cs.columns, op.data, heap).ret
    /\ res.ok
    /\ \E j \in DOMAIN calls : calls[j].cb = "skip"

\* the columns with the skip callback taken off the conditional ones
WithoutCndSkip(columns) ==
    [i \in DOMAIN columns |->
        IF Truthy(columns[i].cnd) THEN [columns[i] EXCEPT !.skip = Absent] ELSE columns[i]]

\* C3: the skip callback of a conditional column is ignored: getUpdates,
\* canUpdate and update give what they give without that callback.
C3_SkipIgnoredWhenConditional ==
    LET plain == WithoutCndSkip(cs.columns)
        env == [names |-> Unset, variables |-> Unset, updates |-> Unset, objs |-> heap,
                fresh |-> nextId]
    IN /\ op.name = "getUpdates" => res.ret = Flat(GetUpdates(plain, Unset, Source).ret)
       /\ (op.name = "canUpdate" /\ res.ok) => res.bool = CanUpdate(plain, op.data, heap).ret
       /\ op.name = "update" =>
             \E strict \in BOOLEAN :
                 LET r == Update(op.data, CSet([cs EXCEPT !.columns = plain]), op.table,
                                 op.options, op.capSQL, env, strict)
                 IN r.ok = res.ok /\ r.ret = res.ret /\ r.err = res.err

\* C4 as claimed: for a property missing from the source object, prepare calls
\* init only if a default is configured.
C4_InitOnlyWithDefault ==
    op.name = "prepare" =>
        \A j \in DOMAIN calls :
            (calls[j].cb = "init" /\ ~In(PropName(cs.columns[calls[j].col]), Source))
            => cs.columns[calls[j].col].def.k # "absent"

\* C4 as amended: for a property missing from the source object, prepare calls
\* init once whether or not a default is configured: with the default when there
\* is one, with undefined when there is none.
C4_InitRunsForMissingProperty ==
    op.name = "prepare" =>
        \A i \in DOMAIN cs.columns :
            LET c == cs.columns[i]
            IN (Truthy(c.init) /\ ~In(PropName(c), Source)) =>
                   /\ Cardinality(InitCalls(i)) = 1
                   /\ \A j \in InitCalls(i) :
                         calls[j].arg = IF c.def.k # "absent" THEN c.def ELSE Undef

\* C4 happens: init called for a missing property without a default
C4_Witness ==
    /\ op.name = "prepare"
    /\ \E j \in DOMAIN calls :
          /\ calls[j].cb = "init"
          /\ ~In(PropName(cs.columns[calls[j].col]), Source)
          /\ cs.columns[calls[j].col].def.k = "absent"
          /\ calls[j].arg = Undef

\* C5: prepare calls the init of every column that has one exactly once, and no
\* other; what it assigns for that column is what init returned, and that is the
\* entry of the result unless a later column assigns the same property.
C5_InitAlwaysInvokedOnce ==
    op.name = "prepare" =>
        /\ \A j \in DOMAIN calls :
              calls[j].cb = "init" /\ Truthy(cs.columns[calls[j].col].init)
        /\ \A i \in DOMAIN cs.columns :
              LET c == cs.columns[i]
              IN Truthy(c.init) =>
                    /\ Cardinality(InitCalls(i)) = 1
                    /\ Writes(i) # {}
                    /\ \A j \in InitCalls(i) :
                          LET v == ApplyInit(c.init.s, Source, calls[j].arg)
                          IN /\ calls[j].fn = c.init.s
                             /\ res.writes[Last(Writes(i))].v = v
                             /\ (\A l \in DOMAIN cs.columns :
                                    l > i => PropName(cs.columns[l]) # PropName(c))
                                => Get(res.target, PropName(c)) = v

\* C5 happens: init called for a conditional column with a skip callback whose
\* property is present, and for a column whose property is missing
C5_Witness ==
    /\ op.name = "prepare"
    /\ \E i, l \in DOMAIN cs.columns :
          /\ Truthy(cs.columns[i].cnd) /\ Truthy(cs.columns[i].skip)
          /\ In(PropName(cs.columns[i]), Source)
          /\ InitCalls(i) # {}
          /\ ~In(PropName(cs.columns[l]), Source)
          /\ InitCalls(l) # {}

\* what C6 says prepare assigns for column c: a value, nothing, or (for a missing
\* property with init and without a default) nothing said
Resolved(c, obj) ==
    LET name == PropName(c)
    IN IF In(name, obj) THEN
           [says |-> "value",
            v |-> IF Truthy(c.init) THEN ApplyInit(c.init.s, obj, Get(obj, name))
                  ELSE Get(obj, name)]
       ELSE IF c.def.k # "absent" THEN
           [says |-> "value",
            v |-> IF Truthy(c.init) THEN ApplyInit(c.init.s, obj, c.def) ELSE c.def]
       ELSE IF ~Truthy(c.init) THEN [says |-> "nothing", v |-> Undef]
       ELSE [says |-> "any", v |-> Undef]

\* C6: prepare assigns for each column init(value) or the value when the property
\* is present, init(def) or def when it is missing and a default is configured,
\* and nothing when it is missing with neither; the result has an entry for
\* exactly the properties assigned, each holding the last value assigned to it.
C6_PrepareResolution ==
    op.name = "prepare" =>
        /\ \A i \in DOMAIN cs.columns :
              LET c == cs.columns[i]
                  r == Resolved(c, Source)
              IN /\ r.says = "nothing" => Writes(i) = {}
                 /\ r.says = "value" =>
                       /\ Writes(i) # {}
                       /\ res.writes[Last(Writes(i))].k = PropName(c)
                       /\ res.writes[Last(Writes(i))].v = r.v
        /\ res.target.proto = <<>>
        /\ \A p \in DOMAIN res.target.own :
              LET k == res.target.own[p].k
                  ws == {w \in DOMAIN res.writes : res.writes[w].k = k}
              IN /\ \E i \in DOMAIN cs.columns : PropName(cs.columns[i]) = k
                 /\ ws # {}
                 /\ res.target.own[p].v = res.writes[Last(ws)].v
                 /\ \A q \in DOMAIN res.target.own : res.target.own[q].k = k => q = p
        /\ \A w \in DOMAIN res.writes : HasKey(res.target.own, res.writes[w].k)

\* C6 happens: prepare({}) with a column that has neither def nor init and one
\* with def 5 and a doubling init gives exactly {msg: 10}
C6_Witness ==
    /\ op.name = "prepare"
    /\ Source = Object(<<>>, <<>>)
    /\ \E i \in DOMAIN cs.columns : Resolved(cs.columns[i], Source).says = "nothing"
    /\ res.target = Object(<<P("msg", Num(10))>>, <<>>)

\* C7: no call changes a source object, and every prepare call returns an object
\* that is neither a source object nor one returned before.
C7_PrepareLeavesSourceAndReturnsFresh ==
    /\ [](/\ heap = SourceObjects
          /\ op.name = "prepare" => (res.ref >= FirstFresh /\ res.ref < nextId))
    /\ [][op'.name = "prepare" => res'.ref >= nextId]_vars

\* C7 happens: a second prepare call has returned a non-empty object
C7_Witness ==
    /\ op.name = "prepare"
    /\ nextId = FirstFresh + 2
    /\ Len(res.target.own) > 0
    /\ In(res.target.own[1].k, Source)

\* the call of C8: update({id:1,val:123,msg:'hello'}, null, 'my-table')
IsDocExampleCall ==
    /\ op.name = "update"
    /\ op.data = DObj(1)
    /\ op.columns.k = "prim" /\ op.columns.v = Null
    /\ op.table.v = Str("my-table")
    /\ op.options.v = Undef

DocExampleUpper == "UPDATE \"my-table\" SET \"id\"=1,\"val\"=123,\"msg\"='hello'"
DocExampleLower == "update \"my-table\" set \"id\"=1,\"val\"=123,\"msg\"='hello'"

\* C8 as claimed: without options and without the capitalize flag the call
\* returns the statement with its keywords in upper case.
C8_DocExampleUpperWithoutFlag ==
    (IsDocExampleCall /\ ~op.capSQL) => (res.ok /\ res.ret = DocExampleUpper)

\* C8 as amended: the call returns the statement with its keywords in lower case
\* without the capitalize flag, and in upper case with it.
C8_DocExampleFollowsFlag ==
    IsDocExampleCall =>
        /\ res.ok
        /\ res.ret = IF op.capSQL THEN DocExampleUpper ELSE DocExampleLower

\* C8 happens: the call without the flag has returned the lower-case statement
C8_Witness == IsDocExampleCall /\ ~op.capSQL /\ res.ok /\ res.ret = DocExampleLower

ErrColumnsRequired == "Parameter 'columns' is required when updating multiple records."

\* C9: update with an array and without columns throws the TypeError about the
\* columns, whatever the array holds and whatever the table and the options.
C9_ArrayWithoutColumns ==
    (/\ op.name = "update"
     /\ op.data.k = "arr"
     /\ op.columns.k = "prim" /\ IsNull(op.columns.v))
    => (~res.ok /\ res.type = "TypeError" /\ res.err = ErrColumnsRequired /\ res.ret = "")

\* C9 happens: the array is empty, the options are no object, no table is given
C9_Witness ==
    /\ op.name = "update"
    /\ op.data = DArr(<<>>)
    /\ op.columns.k = "prim" /\ op.columns.v = Null
    /\ op.options.v = Str("x")
    /\ ~Truthy(op.table.v)
    /\ res.err = ErrColumnsRequired

\* the ColumnSet and the table of the last update call
OpColumnSet == UpdateColumnSet(op.data, op.columns, heap)
OpTable == UpdateTable(op.columns, op.table)

\* the elements of the array of the last update call that are no objects
InvalidItems == {i \in DOMAIN op.data.items : op.data.items[i].k = "prim"}

\* the fault conditions of update, under the numbers of the claim; 23 and 56
\* are the failing constructions of the ColumnSet and of the TableName
FaultHolds(n) ==
    CASE n = 1 -> op.data.k = "prim"
      [] n = 2 -> op.data.k = "arr" /\ op.columns.k = "prim" /\ IsNull(op.columns.v)
      [] n = 23 -> ~OpColumnSet.ok
      [] n = 3 -> op.data.k = "arr" /\ Len(op.data.items) = 0
      [] n = 4 -> ~IsNull(op.options.v) /\ op.options.v.k # "obj"
      [] n = 5 -> ~Truthy(OpTable.v)
      [] n = 56 -> Truthy(OpTable.v) /\ OpTable.v.k # "tn" /\ ~TableName(OpTable, Undef).ok
      [] n = 6 -> /\ OpColumnSet.ok
                  /\ op.data.k # "prim"
                  /\ \A i \in DOMAIN OpColumnSet.columns :
                        IF op.data.k = "arr" THEN Truthy(OpColumnSet.columns[i].cnd)
                        ELSE ~IsUpdated(OpColumnSet.columns[i], heap[op.data.id])
      [] n = 7 -> op.data.k = "arr" /\ InvalidItems # {}

\* the message of each fault
FaultMessage(n) ==
    CASE n = 1 -> "Invalid parameter 'data' specified."
      [] n = 2 -> ErrColumnsRequired
      [] n = 23 -> OpColumnSet.err
      [] n = 3 -> ErrEmptyArray
      [] n = 4 -> "Invalid parameter 'options' specified."
      [] n = 5 -> "Table name is unknown."
      [] n = 56 -> TableName(OpTable, Undef).err
      [] n = 6 -> ErrNoColumns
      [] n = 7 -> "Invalid update object at index " \o ToString(First(InvalidItems) - 1) \o "."

\* the errors with which the formatter can reject an element before index n
RejectedBefore(n) ==
    {FormatNamed(Variables(OpColumnSet.columns, Unset).ret,
                 Prepare(OpColumnSet.columns, op.data.items[i].id,
                         heap[op.data.items[i].id], nextId).target, TRUE).err :
        i \in {k \in 1..(n - 1) :
                 ~FormatNamed(Variables(OpColumnSet.columns, Unset).ret,
                              Prepare(OpColumnSet.columns, op.data.items[k].id,
                                      heap[op.data.items[k].id], nextId).target, TRUE).ok}}

FirstHeld(order) == order[First({i \in DOMAIN order : FaultHolds(order[i])})]

\* C10 as claimed: of the seven fault conditions that hold, the first one in
\* the order 1..7 is the fault raised.
C10_FirstOfSevenFaults ==
    LET order == <<1, 2, 3, 4, 5, 6, 7>>
    IN (op.name = "update" /\ \E i \in DOMAIN order : FaultHolds(order[i]))
       => (~res.ok /\ res.err = FaultMessage(FirstHeld(order)))

\* C10 as amended: the failing construction of the ColumnSet comes between the
\* faults 2 and 3, that of the TableName between the faults 5 and 6, and the
\* fault 7 gives way to the formatter rejecting an element before index N.
C10_FirstOfNineFaults ==
    LET order == <<1, 2, 23, 3, 4, 5, 56, 6, 7>>
    IN (op.name = "update" /\ \E i \in DOMAIN order : FaultHolds(order[i]))
       => /\ ~res.ok
          /\ res.ret = ""
          /\ \/ res.err = FaultMessage(FirstHeld(order))
             \/ /\ FirstHeld(order) = 7
                /\ res.err \in RejectedBefore(First(InvalidItems))

\* C10 happens: the columns are no object, the array is empty, the options are
\* no object and no table is given: the fault of the ColumnSet is raised
C10_Witness ==
    /\ op.name = "update"
    /\ FaultHolds(23) /\ FaultHolds(3) /\ FaultHolds(4) /\ FaultHolds(5)
    /\ ~FaultHolds(1) /\ ~FaultHolds(2)
    /\ res.err = "Invalid parameter 'columns' specified."

\* the strings of a sequence, separated by commas
RECURSIVE JoinStr(_)
JoinStr(strs) ==
    IF strs = <<>> THEN ""
    ELSE IF Len(strs) = 1 THEN strs[1]
    ELSE strs[1] \o "," \o JoinStr(Tail(strs))

\* a keyword of the statement, in the case the capitalize flag asks for
Keyword(s, capSQL) == IF capSQL THEN UpperCase(s) ELSE s

\* the literal of the value that the object target holds for column c
ValueText(c, target) ==
    FormatValue(Get(target, PropName(c)), IF Truthy(c.mod) THEN c.mod.s ELSE "")

CastSuffix(c) == IF Truthy(c.cast) THEN "::" \o c.cast.s ELSE ""

\* whether column c is assigned in the update of the single object obj
Included(c, obj) ==
    /\ ~Truthy(c.cnd)
    /\ ~(Truthy(c.skip) /\ Truthy(ApplySkip(c.skip.s, obj, PropName(c))))

\* the SET list of a single-object update: the columns kept, with the values of target
SetList(kept, target) ==
    JoinStr([i \in DOMAIN kept |->
               AsName(kept[i].name) \o "=" \o ValueText(kept[i], target) \o CastSuffix(kept[i])])

\* the SET clause of a multi-row update: the columns kept, read from the alias
SetClause(kept, valueAlias) ==
    JoinStr([i \in DOMAIN kept |->
               AsName(kept[i].name) \o "=" \o valueAlias \o "." \o AsName(kept[i].name)
               \o CastSuffix(kept[i])])

\* the tuple of one element: the values of all columns
TupleText(cols, target) ==
    "(" \o JoinStr([i \in DOMAIN cols |-> ValueText(cols[i], target)]) \o ")"

\* the names of all columns in parentheses, or nothing without columns
NamesText(cols) ==
    IF cols = <<>> THEN ""
    ELSE "(" \o JoinStr([i \in DOMAIN cols |-> AsName(cols[i].name)]) \o ")"

\* the alias that the options of the last update call give, or the default
AliasText(given, default) ==
    IF Truthy(op.options.v) /\ Truthy(given) THEN ToStr(given) ELSE default

\* what prepare gives for the object at reference id
PreparedTarget(cols, id) == Prepare(cols, id, heap[id], nextId).target

\* the statement of a single-object update of the table named name
SingleStatement(name, cols, id, capSQL) ==
    Keyword("update ", capSQL) \o name \o Keyword(" set ", capSQL)
    \o SetList(SelectSeq(cols, LAMBDA c : Included(c, heap[id])), PreparedTarget(cols, id))

\* the statement of a multi-row update of the table named name
MultiStatement(name, cols, items, tableAlias, valueAlias, capSQL) ==
    Keyword("update ", capSQL) \o name \o Keyword(" as ", capSQL) \o tableAlias
    \o Keyword(" set ", capSQL)
    \o SetClause(SelectSeq(cols, LAMBDA c : ~Truthy(c.cnd)), valueAlias)
    \o Keyword(" from (values", capSQL)
    \o JoinStr([i \in DOMAIN items |-> TupleText(cols, PreparedTarget(cols, items[i].id))])
    \o Keyword(") as ", capSQL) \o valueAlias \o NamesText(cols)

\* the statement that the last update call returns when it names the table name
Statement(name, capSQL) ==
    IF op.data.k = "obj"
    THEN SingleStatement(name, OpColumnSet.columns, op.data.id, capSQL)
    ELSE MultiStatement(name, OpColumnSet.columns, op.data.items,
                        AliasText(op.options.tableAlias, "t"),
                        AliasText(op.options.valueAlias, "v"), capSQL)

\* the table C11 says update uses: the explicit one when columns is no ColumnSet
\* or when it is given, else that of the ColumnSet
ClaimedTable ==
    IF op.columns.k = "set" /\ IsNull(op.table.v)
    THEN (IF cs.table.ok THEN TInst(cs.table) ELSE TPrim(Undef))
    ELSE op.table

\* whether a table is a TableName or can be made one: it has a non-empty name
HasName(t) == t.v.k = "tn" \/ TableName(t, Undef).ok

\* its escaped qualified name
QualifiedName(t) == IF t.v.k = "tn" THEN t.tn.name ELSE TableName(t, Undef).name

\* the last call is an update that passes the checks made before the table's
ReachesTable ==
    /\ op.name = "update"
    /\ \A n \in {1, 2, 23, 3, 4} : ~FaultHolds(n)

ErrTableUnknown == "Table name is unknown."

\* C11 as claimed: update uses the explicit table when given or when columns is
\* no ColumnSet, else that of the ColumnSet; without a non-empty table name it
\* fails with "Table name is unknown.", else the statement names that table.
C11_UnknownWithoutTableName ==
    ReachesTable =>
        IF ~HasName(ClaimedTable)
        THEN ~res.ok /\ res.err = ErrTableUnknown
        ELSE res.ok => res.ret = Statement(QualifiedName(ClaimedTable), op.capSQL)

\* C11 as amended: the table is chosen as claimed; update fails with "Table
\* name is unknown." when that table is falsy (missing or the empty string), with
\* the TypeError of the TableName constructor when it is truthy but has no
\* non-empty name, and else the statement names its escaped qualified name.
C11_UnknownWhenFalsy ==
    ReachesTable =>
        IF ~Truthy(ClaimedTable.v)
        THEN ~res.ok /\ res.type = "Error" /\ res.err = ErrTableUnknown
        ELSE IF ~HasName(ClaimedTable)
        THEN ~res.ok /\ res.type = "TypeError"
             /\ res.err = "Table name must be non-empty text string."
        ELSE res.ok => res.ret = Statement(QualifiedName(ClaimedTable), op.capSQL)

\* C11 happens: a ColumnSet with its own table and an explicit table with a
\* schema, and the statement names the explicit one
C11_Witness ==
    /\ op.name = "update"
    /\ op.columns.k = "set" /\ cs.table.ok
    /\ op.table = TRec(Str("other"), Str("sch"))
    /\ op.data = DObj(1)
    /\ res.ok
    /\ res.ret = "update \"sch\".\"other\" set \"val\"=123::int,\"msg\"='NaN'"

\* the last call is an update that passes the checks made before the branches
ReachesBranch ==
    /\ op.name = "update"
    /\ \A n \in {1, 2, 23, 3, 4, 5, 56} : ~FaultHolds(n)

\* the skip callbacks C12 says a single-object update calls: that of each column
\* that is not conditional, with the effective property name
RECURSIVE SkipCallsFrom(_, _)
SkipCallsFrom(cols, i) ==
    IF i > Len(cols) THEN <<>>
    ELSE (IF ~Truthy(cols[i].cnd) /\ Truthy(cols[i].skip)
          THEN <<Call("skip", i, cols[i].skip.s, Str(PropName(cols[i])))>>
          ELSE <<>>) \o SkipCallsFrom(cols, i + 1)

C13_MultiSetClause ==
    (ReachesBranch /\ op.data.k = "arr") =>
        LET cols == OpColumnSet.columns
            kept == SelectSeq(cols, LAMBDA c : ~Truthy(c.cnd))
        IN /\ \A i \in DOMAIN calls : calls[i].cb # "skip"
           /\ IF kept = <<>>
              THEN ~res.ok /\ res.type = "Error" /\ res.err = ErrNoColumns
              ELSE /\ res.err # ErrNoColumns
                   /\ res.ok => res.ret =
                         MultiStatement(QualifiedName(OpTable), cols, op.data.items,
                                        AliasText(op.options.tableAlias, "t"),
                                        AliasText(op.options.valueAlias, "v"), op.capSQL)

\* C13 happens: of a conditional column, a column with a skip callback and a cast,
\* and a third column, the last two are set
C13_Witness ==
    /\ op.name = "update"
    /\ op.data = DArr(<<DObj(1), DObj(2)>>)
    /\ op.columns.k = "set"
    /\ op.options.v = Undef
    /\ Len(cs.columns) = 3 /\ Truthy(cs.columns[1].cnd) /\ Truthy(cs.columns[2].skip)
    /\ res.ok
    /\ res.ret = "update \"my-table\" as t set \"val\"=v.\"val\"::int,\"msg\"=v.\"msg\""
                 \o " from (values(1,123,'NaN'),(2,456,'NaN')) as v(\"id\",\"val\",\"msg\")"

\* C14: the values of a multi-row update are one tuple per element of the array,
\* in its order, each holding the values that prepare gives for all columns, the
\* conditional ones too; the declaration after them names all columns; the table
\* alias and the value alias are those of the options when truthy, else t and v.
C14_MultiValuesSource ==
    (ReachesBranch /\ op.data.k = "arr" /\ res.ok) =>
        LET cols == OpColumnSet.columns
            items == op.data.items
            tableAlias == IF Truthy(op.options.v) /\ Truthy(op.options.tableAlias)
                          THEN ToStr(op.options.tableAlias) ELSE "t"
            valueAlias == IF Truthy(op.options.v) /\ Truthy(op.options.valueAlias)
                          THEN ToStr(op.options.valueAlias) ELSE "v"
            tuples == [i \in DOMAIN items |->
                         TupleText(cols, Prepare(cols, items[i].id, heap[items[i].id], nextId).target)]
        IN /\ Len(tuples) = Len(items)
           /\ res.ret = Keyword("update ", op.capSQL) \o QualifiedName(OpTable)
                        \o Keyword(" as ", op.capSQL) \o tableAlias
                        \o Keyword(" set ", op.capSQL)
                        \o SetClause(SelectSeq(cols, LAMBDA c : ~Truthy(c.cnd)), valueAlias)
                        \o Keyword(" from (values", op.capSQL) \o JoinStr(tuples)
                        \o Keyword(") as ", op.capSQL) \o valueAlias \o NamesText(cols)

\* C14 happens: two elements give two tuples with the value of the conditional
\* column first, an empty table alias gives t and the value alias 7 is used
C14_Witness ==
    /\ op.name = "update"
    /\ op.data = DArr(<<DObj(1), DObj(2)>>)
    /\ op.options = UOpts(Str(""), Num(7))
    /\ res.ok
    /\ Len(OpColumnSet.columns) = 3 /\ Truthy(OpColumnSet.columns[1].cnd)
    /\ res.ret = "update \"my-table\" as t set \"val\"=7.\"val\"::int,\"msg\"=7.\"msg\""
                 \o " from (values(1,123,'NaN'),(2,456,'NaN')) as 7(\"id\",\"val\",\"msg\")"

\* the last call is a multi-row update that passes every check made before the
\* elements of the array are looked at, and an element is no object
ReachesInvalidItem ==
    /\ ReachesBranch
    /\ op.data.k = "arr"
    /\ ~FaultHolds(6)
    /\ InvalidItems # {}

Again(capSQL, strict) ==
    Update(op.data, op.columns, op.table, op.options, capSQL,
           [names |-> names, variables |-> variables, updates |-> updates,
            objs |-> heap, fresh |-> nextId], strict)

\* C16: an update and the same update with the other value of the capitalize
\* flag return statements that differ in the case of the keywords update, as,
\* set, from and values only: the table, the aliases, the columns, the casts and
\* the values are the same text in both; a call that fails fails alike.
C16_CapitalizeOnlyKeywords ==
    (op.name = "update") =>
        IF res.ok
        THEN /\ res.ret = Statement(QualifiedName(OpTable), op.capSQL)
             /\ Again(op.capSQL, FALSE).ok
             /\ Again(op.capSQL, FALSE).ret = res.ret
             /\ Again(~op.capSQL, FALSE).ok
             /\ Again(~op.capSQL, FALSE).ret = Statement(QualifiedName(OpTable), ~op.capSQL)
        ELSE \E strict \in BOOLEAN :
                /\ ~Again(~op.capSQL, strict).ok
                /\ Again(~op.capSQL, strict).type = res.type
                /\ Again(~op.capSQL, strict).err = res.err

\* C16 happens: a capitalized multi-row statement keeps the aliases, the names,
\* the cast and the values as they are
C16_Witness ==
    /\ op.name = "update"
    /\ op.capSQL
    /\ op.data = DArr(<<DObj(1)>>)
    /\ res.ok
    /\ res.ret = "UPDATE \"my-table\" AS t SET \"val\"=v.\"val\"::int,\"msg\"=v.\"msg\""
                 \o " FROM (VALUES(1,123,'NaN')) AS v(\"id\",\"val\",\"msg\")"
    /\ Again(FALSE, FALSE).ret =
                 "update \"my-table\" as t set \"val\"=v.\"val\"::int,\"msg\"=v.\"msg\""
                 \o " from (values(1,123,'NaN')) as v(\"id\",\"val\",\"msg\")"

\* C17: canUpdate of an array is true exactly when some column is not
\* conditional and the array is not empty, and calls no skip callback; with
\* conditional columns only it is false for every array; data that is no
\* object makes it throw the TypeError about the parameter data.
C17_CanUpdateArray ==
    (op.name = "canUpdate" /\ op.data.k # "obj") =>
        LET conditional == {i \in DOMAIN cs.columns : Truthy(cs.columns[i].cnd)}
        IN IF op.data.k = "arr"
           THEN /\ res.ok
                /\ res.bool = (/\ Len(cs.columns) > Cardinality(conditional)
                               /\ Len(op.data.items) > 0)
                /\ (Cardinality(conditional) = Len(cs.columns)) => ~res.bool
                /\ calls = <<>>
           ELSE /\ ~res.ok
                /\ res.type = "TypeError"
                /\ res.err = "Invalid parameter 'data' specified."
                /\ calls = <<>>

\* C17 happens: a conditional column and a column whose skip callback holds for
\* the first element give true for an array of two elements
C17_Witness ==
    /\ op.name = "canUpdate"
    /\ op.data = DArr(<<DObj(3), DPrim(Null)>>)
    /\ \E i \in DOMAIN cs.columns : Truthy(cs.columns[i].cnd)
    /\ \E i \in DOMAIN cs.columns :
          /\ ~Truthy(cs.columns[i].cnd)
          /\ Truthy(cs.columns[i].skip)
          /\ Truthy(ApplySkip(cs.columns[i].skip.s, heap[3], PropName(cs.columns[i])))
    /\ \A i \in DOMAIN cs.columns : Truthy(cs.columns[i].cnd) \/ Truthy(cs.columns[i].skip)
    /\ res.ok /\ res.bool
    /\ calls = <<>>

\* the placeholder of column c: its property, or its name, and its modifier
PlaceholderText(c) ==
    "${" \o PropName(c) \o (IF Truthy(c.mod) THEN c.mod.s ELSE "") \o "}"

\* the placeholders of all columns
VariablesText(cols) == JoinStr([i \in DOMAIN cols |-> PlaceholderText(cols[i])])

C19_ColumnsAndTableNeverChange ==
    [][cs'.columns = cs.columns /\ cs'.table = cs.table]_vars

\* the property names that the constructor is to make columns of
ColumnProperties ==
    SelectSeq(ForIn(op.columns.obj), LAMBDA e : e.own \/ Truthy(op.inherit))

\* C20: a ColumnSet made from a plain object has one column for each of its
\* property names, in the order of enumeration, named as the property and with
\* no property name, modifier or conditional flag; the inherited properties
\* count only when the option inherit is truthy.
C20_OneColumnPerProperty ==
    (op.name = "new" /\ op.columns.k = "obj" /\ res.ok) =>
        /\ Len(cs.columns) = Len(ColumnProperties)
        /\ \A i \in DOMAIN cs.columns :
              /\ cs.columns[i].name = ColumnProperties[i].name
              /\ ~Truthy(cs.columns[i].prop)
              /\ ~Truthy(cs.columns[i].mod)
              /\ ~Truthy(cs.columns[i].cnd)

\* the modifier tokens, as the claim lists them
ClaimedTokens == <<"^", "~", "#", ":raw", ":name", ":json", ":csv", ":value">>

\* the number of question marks that a string starts with
Questions(chars) ==
    CHOOSE n \in 0..Len(chars) :
        /\ \A i \in 1..n : chars[i] = "?"
        /\ n < Len(chars) => chars[n + 1] # "?"

\* the string without the question marks it starts with
Remainder(chars) == SubSeq(chars, Questions(chars) + 1, Len(chars))

\* the pairs of a 0-based index and a token that occurs there
Occurrences(chars) ==
    {o \in (0..Len(chars)) \X DOMAIN ClaimedTokens :
        /\ o[1] + Len(ClaimedTokens[o[2]]) <= Len(chars)
        /\ JoinChars(SubSeq(chars, o[1] + 1, o[1] + Len(ClaimedTokens[o[2]]))) = ClaimedTokens[o[2]]}

\* the last call made a Column from a string
FromString == op.name = "Column" /\ op.col.v.k = "str" /\ res.ok

\* C21: a Column made from a string has cnd true when the string starts with a
\* question mark and no cnd otherwise; with the leading question marks removed,
\* its name is the text before the leftmost modifier token and its mod that
\* token, or the name is all of the rest and there is no mod when no token occurs.
C21_StringParsing ==
    FromString =>
        /\ res.column.cnd = IF Questions(CharsOf(op.col.v.s)) > 0 THEN Bool(TRUE) ELSE Absent
        /\ IF Occurrences(Remainder(CharsOf(op.col.v.s))) = {}
           THEN /\ res.column.name = JoinChars(Remainder(CharsOf(op.col.v.s)))
                /\ res.column.mod = Absent
           ELSE \E o \in Occurrences(Remainder(CharsOf(op.col.v.s))) :
                   /\ \A p \in Occurrences(Remainder(CharsOf(op.col.v.s))) : o[1] <= p[1]
                   /\ res.column.name = JoinChars(SubSeq(Remainder(CharsOf(op.col.v.s)), 1, o[1]))
                   /\ res.column.mod = Str(ClaimedTokens[o[2]])

C21_Witness ==
    /\ FromString
    /\ op.col.v.s = "?id:json"
    /\ res.column.name = "id"
    /\ res.column.mod = Str(":json")
    /\ res.column.cnd = Bool(TRUE)

\* the step makes a Column again from the fields of one made from a string
Reconstructs == op'.name = "ColumnAgain" /\ op.col.v.k = "str"

NonEmptyString(v) == v.k = "str" /\ v.s # ""

\* the name that the Column would get is not a non-empty string
NameUnusable(col) ==
    IF col.v.k = "str"
    THEN \/ Remainder(CharsOf(col.v.s)) = <<>>
         \/ \E o \in Occurrences(Remainder(CharsOf(col.v.s))) : o[1] = 0
    ELSE ~NonEmptyString(col.f.name)

\* there is a property prop, and it is not a non-empty string
PropUnusable(col) == col.v.k = "obj" /\ col.f.prop.k # "absent" /\ ~NonEmptyString(col.f.prop)

\* C23: the Column constructor throws a TypeError, and makes no Column, when
\* its argument is neither a string nor an object (with the message about a
\* string or a configurator object), when the name is not a non-empty string,
\* or when there is a property prop that is not a non-empty string; it succeeds
\* in every other case.
C23_ColumnFailsExactly ==
    op.name = "Column" =>
        IF op.col.v.k \notin {"str", "obj"} \/ NameUnusable(op.col) \/ PropUnusable(op.col)
        THEN /\ ~res.ok
             /\ res.type = "TypeError"
             /\ res.column = NoColumn
             /\ op.col.v.k \notin {"str", "obj"} =>
                   res.err = "A column must be a string or a configurator object."
        ELSE res.ok /\ res.column.ok

C23_Witness ==
    /\ op.name = "Column"
    /\ op.col = Config([NoFields EXCEPT !.name = Str("id"), !.prop = Undef])
    /\ ~res.ok
    /\ res.type = "TypeError"
    /\ res.err = "A property name must be a non-empty text string."

\* the table and the schema that the last TableName call is to use
GivenAsRecord == op.table.v.k = "obj" /\ op.table.f.table.k # "absent"
GivenTable == IF GivenAsRecord THEN op.table.f.table ELSE op.table.v
GivenSchema == IF GivenAsRecord THEN op.table.f.schema ELSE op.schema
SchemaIsNull == GivenSchema.k \in {"absent", "undef", "null"}

\* the name claimed for a table and a schema that are accepted
ClaimedName ==
    IF ~SchemaIsNull /\ GivenSchema.s # ""
    THEN "\"" \o GivenSchema.s \o "\".\"" \o GivenTable.s \o "\""
    ELSE "\"" \o GivenTable.s \o "\""

\* C24: the TableName constructor throws a TypeError when the table is not a
\* non-empty string or the schema is neither null nor a string; otherwise the
\* instance has the table, the schema unless it is empty or null, and as name
\* (which toString returns) the escaped schema, a dot and the escaped table, or
\* the escaped table alone; a record {table, schema} overrides a schema passed
\* separately; no assignment changes the instance.
C24_TableName ==
    op.name \in {"TableName", "toString", "assign"} =>
        IF ~NonEmptyString(GivenTable) \/ (~SchemaIsNull /\ GivenSchema.k # "str")
        THEN ~res.ok /\ res.type = "TypeError" /\ res.tn = NoTable
        ELSE /\ res.tn.ok
             /\ res.tn.table = GivenTable.s
             /\ res.tn.schema = IF ~SchemaIsNull /\ GivenSchema.s # "" THEN GivenSchema ELSE Absent
             /\ res.tn.name = ClaimedName
             /\ op.name = "TableName" => res.ok
             /\ op.name = "toString" => res.ret = ClaimedName

C24_Witness ==
    /\ op.name = "assign"
    /\ op.table = TRec(Str("t"), Str("s"))
    /\ op.schema = Str("z")
    /\ res.tn.name = "\"s\".\"t\""
    /\ res.tn.schema = Str("s")

\* the assignments of the columns that an update of the object obj sets, each
\* with its placeholder and its cast: what getUpdates computes for obj
UpdatesText(cols, obj) ==
    JoinStr([i \in DOMAIN SelectSeq(cols, LAMBDA c : Included(c, obj)) |->
               AsName(SelectSeq(cols, LAMBDA c : Included(c, obj))[i].name) \o "="
               \o PlaceholderText(SelectSeq(cols, LAMBDA c : Included(c, obj))[i])
               \o CastSuffix(SelectSeq(cols, LAMBDA c : Included(c, obj))[i])])

\* no column that is not conditional has a skip callback
SkipFree(cols) == \A i \in DOMAIN cols : Truthy(cols[i].cnd) \/ ~Truthy(cols[i].skip)

\* C25: every getUpdates(obj) returns the text computed for its own object,
\* whatever was called before with other objects; the text is stored only when
\* no column that is not conditional has a skip callback, and then it is the
\* text of every object.
C25_UpdatesCacheTransparent ==
    /\ op.name = "getUpdates" => res.ret = UpdatesText(cs.columns, Source)
    /\ updates.def =>
          /\ SkipFree(cs.columns)
          /\ \A id \in DOMAIN heap : Flat(updates.val) = UpdatesText(cs.columns, heap[id])

\* C25 happens: the text is stored, and a call with the empty object returns it
C25_Witness ==
    /\ op.name = "getUpdates"
    /\ op.id = 3
    /\ Len(cs.columns) = 2
    /\ Truthy(cs.columns[1].skip)
    /\ Filled(updates)
    /\ res.ret = Flat(updates.val)
    /\ res.ret = "\"id\"=${id}"

\* C26: a closure variable that holds a value holds the value computed on the
\* first access, and no step clears it or gives it another value.
C26_CachesWriteOnce ==
    [][/\ names.def => names' = names
       /\ variables.def => variables' = variables
       /\ updates.def => updates' = updates
       /\ names'.def => Flat(names'.val) = NamesText(cs.columns)
       /\ variables'.def => Flat(variables'.val) = VariablesText(cs.columns)
       /\ updates'.def => \A id \in DOMAIN heap : Flat(updates'.val) = UpdatesText(cs.columns, heap[id])]_vars

\* C26 happens: the three closure variables hold their values, and a later
\* update has used them
C26_Witness ==
    /\ op.name = "update"
    /\ res.ok
    /\ Filled(names) /\ Filled(variables) /\ Filled(updates)
    /\ Len(cs.columns) = 2

\* what a call of update gives its caller
Outcome(r) == [ok |-> r.ok, ret |-> r.ret, type |-> r.type, err |-> r.err]

\* what a call of canUpdate gives its caller
Verdict(r) == IF r.ok THEN [ok |-> TRUE, ret |-> r.ret] ELSE [ok |-> FALSE, err |-> r.err]

\* what every call that can be made next on the ColumnSet would return, were its
\* closure variables n, v and u
Returns(n, v, u) ==
    [names |-> Flat(Names(cs.columns, n).ret),
     variables |-> Flat(Variables(cs.columns, v).ret),
     getUpdates |-> [id \in DOMAIN heap |-> Flat(GetUpdates(cs.columns, u, heap[id]).ret)],
     canUpdate |-> [d \in DOMAIN DataValues |-> Verdict(CanUpdate(cs.columns, DataValues[d], heap))],
     prepare |-> [id \in DOMAIN heap |-> Prepare(cs.columns, id, heap[id], nextId).target],
     update |-> [d \in DOMAIN DataValues, t \in {Undef, Str("my-table")}, strict \in BOOLEAN |->
                   Outcome(Update(DataValues[d], CSet(cs), TPrim(t), UPrim(Undef), FALSE,
                                  [names |-> n, variables |-> v, updates |-> u,
                                   objs |-> heap, fresh |-> nextId], strict))]]

\* C27: a call of update, canUpdate or a constructor that throws returns no
\* text and leaves the ColumnSet and the objects as they were; and whenever the
\* caller is free to make a call, every call returns what it would return with
\* nothing memoized, that is, what the ColumnSet and the objects alone decide:
\* what the call that threw left in the closure variables changes no later
\* return.
C27_FaultLeavesNoTrace ==
    /\ [](Idle => Returns(names, variables, updates) = Returns(Unset, Unset, Unset))
    /\ [][(op'.name \in {"update", "canUpdate", "Column", "ColumnSet"} /\ ~res'.ok) =>
             (res'.ret = "" /\ cs' = cs /\ heap' = heap)]_vars

\* C27 happens: an update of an array has thrown at its second element, after
\* the first was prepared and the variables were memoized
C27_Witness ==
    /\ op.name = "update"
    /\ op.data = DArr(<<DObj(3), DPrim(Null)>>)
    /\ ~res.ok
    /\ res.err = "Invalid update object at index 1."
    /\ res.ret = ""
    /\ variables.def
    /\ ~names.def

\* the columns, by index, whose init callback prepare calls for one object
InitColumns(cols) ==
    SelectSeq([i \in DOMAIN cols |-> i], LAMBDA i : Truthy(cols[i].init))

\* a sequence n times over
RECURSIVE Repeated(_, _)
Repeated(seq, n) == IF n = 0 THEN <<>> ELSE seq \o Repeated(seq, n - 1)

\* the columns of the init callbacks that the last call called, in order
InitsCalled ==
    [j \in DOMAIN SelectSeq(calls, LAMBDA x : x.cb = "init") |->
        SelectSeq(calls, LAMBDA x : x.cb = "init")[j].col]

\* the messages of the faults of update that C28 names
EarlyMessages ==
    {"Invalid parameter 'data' specified.", ErrColumnsRequired, ErrEmptyArray,
     "Invalid parameter 'options' specified.", ErrTableUnknown, ErrNoColumns}

\* C28: an update whose arguments fail a check, or that lacks columns to set,
\* calls no init callback; an update of a single object calls every skip
\* callback before any init callback; an update of an array that fails with
\* "Invalid update object at index N." has called the init callbacks for the
\* N elements before that index, element by element, and for no other.
C28_CallbackOrder ==
    op.name = "update" =>
        /\ (~res.ok /\ res.err \in EarlyMessages) => InitsCalled = <<>>
        /\ (\E n \in {1, 2, 23, 3, 4, 5, 56, 6} : FaultHolds(n)) => InitsCalled = <<>>
        /\ op.data.k = "obj" =>
              \A i, j \in DOMAIN calls :
                  (calls[i].cb = "skip" /\ calls[j].cb = "init") => i < j
        /\ \A n \in DOMAIN op.data.items :
              (~res.ok /\ res.err = "Invalid update object at index " \o ToString(n - 1) \o ".")
                  => InitsCalled = Repeated(InitColumns(OpColumnSet.columns), n - 1)

\* C28 happens: the second element of the array is null, and the init callback
\* of the one column that has one was called once, for the first element
C28_Witness ==
    /\ op.name = "update"
    /\ op.data = DArr(<<DObj(3), DPrim(Null)>>)
    /\ ~res.ok
    /\ res.err = "Invalid update object at index 1."
    /\ InitsCalled = <<3>>

\* what a lone caller of the getter of frame f gets
LoneValue(f) ==
    CASE f.name = "names" -> Flat(Names(cs.columns, Unset).ret)
      [] f.name = "variables" -> Flat(Variables(cs.columns, Unset).ret)
      [] f.name = "getUpdates" -> Flat(GetUpdates(cs.columns, Unset, heap[f.id]).ret)
      [] OTHER -> ""

\* no caller is inside the getter
Quiet(name) == \A c \in Callers : op[c].name = name => op[c].pc = "done"

\* the cache is as no call or as a lone call leaves it
AsLoneCallerLeaves(cache, r) == cache = Unset \/ cache = r.cache

\* the race on this getter is benign: every caller that has returned has what
\* a lone caller gets
BenignReturns(name) ==
    \A c \in Callers : (op[c].name = name /\ op[c].pc = "done") => res[c].ret = LoneValue(op[c])

\* text wrapped in k pairs of parentheses
RECURSIVE Wrapped(_, _)
Wrapped(txt, k) == IF k = 0 THEN txt ELSE "(" \o Wrapped(txt, k - 1) \o ")"

\* the escaped names of the columns, joined
JoinedNames == Flat(JoinText([i \in DOMAIN cs.columns |-> T(cs.columns[i].escapedName)]))

\* C29 as stated: however the callers interleave, each of names, variables and
\* getUpdates returns what a lone caller gets, and once no caller is inside
\* the getter its closure variable is unset or holds what a lone caller leaves.
C29_BenignRace ==
    /\ \A name \in {"names", "variables", "getUpdates"} : BenignReturns(name)
    /\ Quiet("names") => AsLoneCallerLeaves(names, Names(cs.columns, Unset))
    /\ Quiet("variables") => AsLoneCallerLeaves(variables, Variables(cs.columns, Unset))
    /\ Quiet("getUpdates") =>
          \A id \in RaceObjects : AsLoneCallerLeaves(updates, GetUpdates(cs.columns, Unset, heap[id]))

\* C29: the race is benign on variables and on getUpdates: each caller returns
\* what a lone caller gets and the closure variable ends unset or as a lone
\* caller leaves it, and updates is assigned for skip-free columns only. On
\* names it is not: what a caller returns, and what names holds, is the joined
\* escaped names in no pair of parentheses, in one, or in up to as many as
\* there are callers.
C29_BenignButNames ==
    /\ BenignReturns("variables")
    /\ BenignReturns("getUpdates")
    /\ Quiet("variables") => AsLoneCallerLeaves(variables, Variables(cs.columns, Unset))
    /\ Quiet("getUpdates") =>
          \A id \in RaceObjects : AsLoneCallerLeaves(updates, GetUpdates(cs.columns, Unset, heap[id]))
    /\ names.def => \E k \in 0..MaxCallers : Flat(names.val) = Wrapped(JoinedNames, k)
    /\ \A c \in Callers :
          (op[c].name = "names" /\ op[c].pc = "done") =>
              \E k \in 0..MaxCallers : res[c].ret = Wrapped(JoinedNames, k)

\* C29 happens: two callers passed the check of variables before either
\* assigned it; one has assigned and returned, the other is about to assign;
\* and two callers are past the check of updates with different objects
C29_Witness ==
    \/ /\ At(1, "variables", "done")
       /\ At(2, "variables", "write")
       /\ Filled(variables)
       /\ res[1].ret = LoneValue(op[1])
    \/ /\ At(1, "getUpdates", "done")
       /\ At(2, "getUpdates", "store")
       /\ Filled(updates)
       /\ op[1].id # op[2].id

====
